---- MODULE Spec2Model ----
(***************************************************************************)
(* The per-frame vehicle controller of angelnavasd/colins: CarController   *)
(* (looping-road variant and bounded-world variant), the Game component    *)
(* that owns the prop set, the Cube integrator and the global input        *)
(* handlers.                                                               *)
(*                                                                         *)
(* Numbers.  The program computes in IEEE doubles.  The model computes in  *)
(* fixed point with Unit = 1.0 (1000 model units per world unit, per       *)
(* radian and per second); every product and quotient is rounded to the    *)
(* nearest model unit, as every floating-point operation rounds to the     *)
(* nearest double.                                                         *)
(***************************************************************************)
EXTENDS Integers, Sequences, FiniteSets, TLC

Unit == 10 * 100

\* ------------------------------------------------------------------ bounds
\* number of props in the set (the program creates 40)
NumCubes == 2
\* frames that start on the ground, per run (falling frames are not counted)
MaxGroundFrames == 3
\* input events (key / mouse) per run
MaxEvents == 1
\* times per run the ground probe may lose the ground after a landing
MaxFalls == 1
\* frames a key set is held before a run of SpecDrive starts
MaxHeldFrames == 62
\* frames a key set is held before a run of SpecDrive that may lose the ground
MaxFallHeldFrames == 12

\* ---------------------------------------------------------- arithmetic
Abs(x) == IF x < 0 THEN -x ELSE x

Max(a, b) == IF a > b THEN a ELSE b

\* a / b rounded to the nearest integer (b > 0), ties away from zero
RoundDiv(a, b) ==
    IF a >= 0 THEN (a + b \div 2) \div b ELSE -((-a + b \div 2) \div b)

\* fixed-point product
Mul(a, b) == RoundDiv(a * b, Unit)

\* MathUtils.clamp(value, min, max) = Math.max(min, Math.min(max, value))
Clamp(value, lo, hi) ==
    LET m == IF value < hi THEN value ELSE hi IN IF m > lo THEN m ELSE lo

\* MathUtils.lerp(x, y, t) = (1 - t) * x + t * y
Lerp(x, y, t) == RoundDiv((Unit - t) * x + t * y, Unit)

RECURSIVE SqrtIter(_, _, _)
SqrtIter(n, lo, hi) ==
    IF lo >= hi THEN lo
    ELSE LET mid == (lo + hi + 1) \div 2
         IN IF mid * mid <= n THEN SqrtIter(n, mid, hi) ELSE SqrtIter(n, lo, mid - 1)

\* Math.sqrt on naturals below 2^31: the nearest integer to the root
Sqrt(n) ==
    LET r == SqrtIter(n, 0, 46340)
    IN IF r < 46340 /\ n - r * r > r THEN r + 1 ELSE r

\* Vector3.length(): large vectors are scaled down first so that the squares
\* stay inside 32 bits (a double loses the low digits in the same way)
Length(v) ==
    LET m == Max(Abs(v.x), Max(Abs(v.y), Abs(v.z)))
    IN IF m < 25000
       THEN Sqrt(v.x * v.x + v.y * v.y + v.z * v.z)
       ELSE LET x == v.x \div 64
                y == v.y \div 64
                z == v.z \div 64
            IN 64 * Sqrt(x * x + y * y + z * z)

Pi == 3142

\* angle reduced to [-Pi, Pi)
WrapAngle(a) == ((a + Pi) % (2 * Pi)) - Pi

\* Taylor polynomials on [-Pi/2, Pi/2]
SinPoly(r) ==
    LET r2 == Mul(r, r)
        r3 == Mul(r2, r)
        r5 == Mul(r3, r2)
        r7 == Mul(r5, r2)
    IN r - RoundDiv(r3, 6) + RoundDiv(r5, 120) - RoundDiv(r7, 5040)

CosPoly(r) ==
    LET r2 == Mul(r, r)
        r4 == Mul(r2, r2)
        r6 == Mul(r4, r2)
    IN Unit - RoundDiv(r2, 2) + RoundDiv(r4, 24) - RoundDiv(r6, 720)

\* Math.sin
Sin(a) ==
    LET r == WrapAngle(a)
    IN IF r > Pi \div 2 THEN SinPoly(Pi - r)
       ELSE IF r < -(Pi \div 2) THEN SinPoly(-Pi - r)
       ELSE SinPoly(r)

\* Math.cos
Cos(a) ==
    LET r == Abs(WrapAngle(a))
    IN IF r > Pi \div 2 THEN -CosPoly(Pi - r) ELSE CosPoly(r)

Vec(x, y, z) == [x |-> x, y |-> y, z |-> z]

Zero3 == Vec(0, 0, 0)

\* ------------------------------------------------------ program constants
maxSpeed == 1200
acceleration == 20
deceleration == 12
friction == 985
brakeFactor == 880
reverseScale == 500
steerDeadzone == 10
turnSpeed == 50
gravity == 5
respawnDepth == -20000
contactRadius == 2500
impulseGain == 1500
baseImpulse == 200
pushUp == 500
spinGain == 2500
mouseSensitivity == 5
pitchMin == 50
pitchMax == 500
worldRadius == 400000
groundYDefault == -100000

\* Cube integrator
lunarGravity == 5
airFriction == 980
groundLevel == 1000
groundFriction == 950

\* InfiniteRoad
SEGMENT_SIZE == 20000
SEGMENT_COUNT == 15
TOTAL_LENGTH == SEGMENT_SIZE * SEGMENT_COUNT
recycleBehind == 20000

Intents == {"forward", "backward", "left", "right", "brake"}

\* the actions of the useKeyboard hook
Actions == Intents \cup {"reset"}

Codes == {"ArrowUp", "KeyW", "ArrowDown", "KeyS", "ArrowLeft", "KeyA",
          "ArrowRight", "KeyD", "Space", "KeyR"}

\* the intent a key code is mapped to
IntentOf(code) ==
    CASE code \in {"ArrowUp", "KeyW"} -> "forward"
      [] code \in {"ArrowDown", "KeyS"} -> "backward"
      [] code \in {"ArrowLeft", "KeyA"} -> "left"
      [] code \in {"ArrowRight", "KeyD"} -> "right"
      [] code = "Space" -> "brake"
      [] OTHER -> "reset"

\* the window keydown / keyup listeners of the controller module: the flag a
\* code is mapped to gets the direction of the event, any other code nothing
SetKey(k, code, down) ==
    IF IntentOf(code) \in Intents THEN [k EXCEPT ![IntentOf(code)] = down]
    ELSE k

\* useKeyboard.handleKeyDown: setActions(prev => ({...prev, action: true}))
handleKeyDown(prev, code) == [prev EXCEPT ![IntentOf(code)] = TRUE]

\* useKeyboard.handleKeyUp
handleKeyUp(prev, code) == [prev EXCEPT ![IntentOf(code)] = FALSE]

\* the hook's state when the keys k are held
HeldActions(k) == [a \in Actions |-> a \in Intents /\ k[a]]

\* ------------------------------------------------------------ input sets
\* frame times (clock delta), in milliseconds
Deltas == {16}

\* pointer movement per mousemove event, in pixels
Movements == {-100, 0, 100}

\* positions Math.random() can give a prop at a respawn
RespawnPositions == {Vec(0, 1000, -2000), Vec(30000, 1000, 30000)}

Variants == {"loop", "bounded"}

VARIABLES
    variant,          \* which CarController is mounted
    keys,             \* the global keys record
    velocity, steeringAngle, isFalling, hasLanded, verticalVelocity,
    cameraOrbit, isDragging, cameraDist, wheelRotations,
    carModelRef,      \* the car model group: rotation (body lean)
    flWheel,          \* the front-left wheel group: rotation.y (steer visual)
    actions,          \* the state of the useKeyboard hook
    worldRef,         \* the world anchor group: position, rotation
    carGroupRef,      \* the vehicle group: position, rotation
    cubeStates,       \* Game.cubeStates
    roadZ,            \* InfiniteRoad: position.z of each segment group
    pc,               \* whose useFrame callback runs next in the render tick
    respawnCalls,     \* number of onRespawn invocations so far
    last,             \* what the latest CarController frame saw and did
    groundFrames, inputEvents, falls   \* the run's budgets, used so far

vars == <<variant, keys, velocity, steeringAngle, isFalling, hasLanded,
          verticalVelocity, cameraOrbit, isDragging, cameraDist,
          wheelRotations, carModelRef, flWheel, actions, worldRef,
          carGroupRef, cubeStates, roadZ, pc,
          respawnCalls, last, groundFrames, inputEvents, falls>>

\* The refs and the objects useFrame reads and writes, as one record
State ==
    [velocity |-> velocity, steeringAngle |-> steeringAngle,
     isFalling |-> isFalling, hasLanded |-> hasLanded,
     verticalVelocity |-> verticalVelocity, cameraOrbit |-> cameraOrbit,
     cameraDist |-> cameraDist, wheelRotations |-> wheelRotations,
     carModelRef |-> carModelRef, flWheel |-> flWheel,
     worldRef |-> worldRef, carGroupRef |-> carGroupRef,
     cubeStates |-> cubeStates, respawnCalls |-> respawnCalls]

\* ------------------------------------------------ Game (looping road)
\* the segment groups as InfiniteRoad renders them: position [0, 0, -i * 20]
StartRoad == [i \in 1..SEGMENT_COUNT |-> -(i - 1) * SEGMENT_SIZE]

\* InfiniteRoad.useFrame: a segment whose world position is more than 20
\* behind the vehicle goes to the front of the road (the segment groups are
\* children of the world anchor, which is not rotated)
InfiniteRoadUseFrame(road, anchorZ) ==
    [i \in 1..Len(road) |->
        IF road[i] + anchorZ > recycleBehind THEN road[i] - TOTAL_LENGTH
        ELSE road[i]]

\* handleRespawn that leaves the velocities as they are
handleRespawnKeepsVelocity(cubes, rnd) ==
    [i \in 1..Len(cubes) |->
        [position |-> rnd[i], velocity |-> cubes[i].velocity, fallen |-> FALSE]]

\* Game.handleRespawn: every cube gets a fresh random position (rnd[i]),
\* zero velocity and fallen = false
handleRespawn(cubes, rnd) ==
    [i \in 1..Len(cubes) |->
        [position |-> rnd[i], velocity |-> Zero3, fallen |-> FALSE]]

\* Cube.useFrame that tests the depth before it clamps to the ground
CubeUseFrameDepthFirst(c) ==
    IF c.fallen THEN c
    ELSE LET vy1 == c.velocity.y - lunarGravity
             v2 == Vec(Mul(c.velocity.x, airFriction), Mul(vy1, airFriction),
                       Mul(c.velocity.z, airFriction))
             p2 == Vec(c.position.x + v2.x, c.position.y + v2.y,
                       c.position.z + v2.z)
             onGround == p2.y < groundLevel /\ p2.y >= respawnDepth
             p3 == IF onGround THEN [p2 EXCEPT !.y = groundLevel] ELSE p2
             v3 == IF onGround
                   THEN Vec(Mul(v2.x, groundFriction), 0, Mul(v2.z, groundFriction))
                   ELSE v2
         IN [position |-> p3, velocity |-> v3, fallen |-> p2.y < respawnDepth]

\* Cube.useFrame: the prop's own gravity / friction / ground integrator
CubeUseFrame(c) ==
    IF c.fallen THEN c
    ELSE LET vy1 == c.velocity.y - lunarGravity
             v2 == Vec(Mul(c.velocity.x, airFriction), Mul(vy1, airFriction),
                       Mul(c.velocity.z, airFriction))
             p2 == Vec(c.position.x + v2.x, c.position.y + v2.y,
                       c.position.z + v2.z)
             onGround == p2.y < groundLevel
             p3 == IF onGround THEN [p2 EXCEPT !.y = groundLevel] ELSE p2
             v3 == IF onGround
                   THEN Vec(Mul(v2.x, groundFriction), 0, Mul(v2.z, groundFriction))
                   ELSE v2
         IN [position |-> p3, velocity |-> v3, fallen |-> p3.y < respawnDepth]

\* --------------------------------- CarController (looping road), useFrame
\* MovementPhysics with the clamp of the speed left out
MovementPhysicsNoClamp(S, k) ==
    IF S.isFalling THEN S
    ELSE LET v1 == IF k.forward THEN S.velocity + acceleration
                   ELSE IF k.backward THEN S.velocity - deceleration
                   ELSE Mul(S.velocity, friction)
             v2 == IF k.brake THEN Mul(v1, brakeFactor) ELSE v1
         IN [S EXCEPT !.velocity = v2]

\* MovementPhysics whose coasting takes deceleration off the speed
MovementPhysicsLinearCoast(S, k) ==
    IF S.isFalling THEN S
    ELSE LET v1 == IF k.forward THEN S.velocity + acceleration
                   ELSE S.velocity - deceleration
             v2 == IF k.brake THEN Mul(v1, brakeFactor) ELSE v1
             v3 == Clamp(v2, -Mul(maxSpeed, reverseScale), maxSpeed)
             steerFactor == RoundDiv(Abs(v3) * Unit, maxSpeed)
             dir == IF v3 > 0 THEN 1 ELSE -1
             turn == Mul(turnSpeed, steerFactor) * dir
             a1 == IF k.left THEN S.steeringAngle + turn ELSE S.steeringAngle
             a2 == IF k.right THEN a1 - turn ELSE a1
             a3 == Clamp(a2, -RoundDiv(Pi, 3), RoundDiv(Pi, 3))
         IN [S EXCEPT !.velocity = v3,
                      !.steeringAngle =
                          IF Abs(v3) > steerDeadzone THEN a3 ELSE S.steeringAngle]

\* MovementPhysics that steers at any speed, with the full turnSpeed
MovementPhysicsNoDeadzone(S, k) ==
    IF S.isFalling THEN S
    ELSE LET v1 == IF k.forward THEN S.velocity + acceleration
                   ELSE IF k.backward THEN S.velocity - deceleration
                   ELSE Mul(S.velocity, friction)
             v2 == IF k.brake THEN Mul(v1, brakeFactor) ELSE v1
             v3 == Clamp(v2, -Mul(maxSpeed, reverseScale), maxSpeed)
             dir == IF v3 >= 0 THEN 1 ELSE -1
             turn == turnSpeed * dir
             a1 == IF k.left THEN S.steeringAngle + turn ELSE S.steeringAngle
             a2 == IF k.right THEN a1 - turn ELSE a1
             a3 == Clamp(a2, -RoundDiv(Pi, 3), RoundDiv(Pi, 3))
         IN [S EXCEPT !.velocity = v3, !.steeringAngle = a3]

\* MovementPhysics with the clamp of the steering angle left out
MovementPhysicsNoAngleClamp(S, k) ==
    IF S.isFalling THEN S
    ELSE LET v1 == IF k.forward THEN S.velocity + acceleration
                   ELSE IF k.backward THEN S.velocity - deceleration
                   ELSE Mul(S.velocity, friction)
             v2 == IF k.brake THEN Mul(v1, brakeFactor) ELSE v1
             v3 == Clamp(v2, -Mul(maxSpeed, reverseScale), maxSpeed)
             steerFactor == RoundDiv(Abs(v3) * Unit, maxSpeed)
             dir == IF v3 > 0 THEN 1 ELSE -1
             turn == Mul(turnSpeed, steerFactor) * dir
             a1 == IF k.left THEN S.steeringAngle + turn ELSE S.steeringAngle
             a2 == IF k.right THEN a1 - turn ELSE a1
         IN [S EXCEPT !.velocity = v3,
                      !.steeringAngle =
                          IF Abs(v3) > steerDeadzone THEN a2 ELSE S.steeringAngle]

\* MovementPhysics that scales the acceleration to the frame time (60
\* frames a second being the full acceleration)
MovementPhysicsPerSecond(S, k) ==
    IF S.isFalling THEN S
    ELSE LET delta == CHOOSE d \in Deltas : TRUE
             v1 == IF k.forward
                   THEN S.velocity + Mul(acceleration, delta * 60)
                   ELSE IF k.backward THEN S.velocity - deceleration
                   ELSE Mul(S.velocity, friction)
             v2 == IF k.brake THEN Mul(v1, brakeFactor) ELSE v1
             v3 == Clamp(v2, -Mul(maxSpeed, reverseScale), maxSpeed)
             steerFactor == RoundDiv(Abs(v3) * Unit, maxSpeed)
             dir == IF v3 > 0 THEN 1 ELSE -1
             turn == Mul(turnSpeed, steerFactor) * dir
             a1 == IF k.left THEN S.steeringAngle + turn ELSE S.steeringAngle
             a2 == IF k.right THEN a1 - turn ELSE a1
             a3 == Clamp(a2, -RoundDiv(Pi, 3), RoundDiv(Pi, 3))
         IN [S EXCEPT !.velocity = v3,
                      !.steeringAngle =
                          IF Abs(v3) > steerDeadzone THEN a3 ELSE S.steeringAngle]

\* MovementPhysics that runs while the vehicle falls, too
MovementPhysicsWhileFalling(S, k) ==
    LET v1 == IF k.forward THEN S.velocity + acceleration
              ELSE IF k.backward THEN S.velocity - deceleration
              ELSE Mul(S.velocity, friction)
        v2 == IF k.brake THEN Mul(v1, brakeFactor) ELSE v1
        v3 == Clamp(v2, -Mul(maxSpeed, reverseScale), maxSpeed)
        steerFactor == RoundDiv(Abs(v3) * Unit, maxSpeed)
        dir == IF v3 > 0 THEN 1 ELSE -1
        turn == Mul(turnSpeed, steerFactor) * dir
        a1 == IF k.left THEN S.steeringAngle + turn ELSE S.steeringAngle
        a2 == IF k.right THEN a1 - turn ELSE a1
        a3 == Clamp(a2, -RoundDiv(Pi, 3), RoundDiv(Pi, 3))
    IN [S EXCEPT !.velocity = v3,
                 !.steeringAngle =
                     IF Abs(v3) > steerDeadzone THEN a3 ELSE S.steeringAngle]

\* MovementPhysics that brakes the clamped speed
MovementPhysicsBrakeAfterClamp(S, k) ==
    IF S.isFalling THEN S
    ELSE LET v1 == IF k.forward THEN S.velocity + acceleration
                   ELSE IF k.backward THEN S.velocity - deceleration
                   ELSE Mul(S.velocity, friction)
             v2 == Clamp(v1, -Mul(maxSpeed, reverseScale), maxSpeed)
             v3 == IF k.brake THEN Mul(v2, brakeFactor) ELSE v2
             steerFactor == RoundDiv(Abs(v3) * Unit, maxSpeed)
             dir == IF v3 > 0 THEN 1 ELSE -1
             turn == Mul(turnSpeed, steerFactor) * dir
             a1 == IF k.left THEN S.steeringAngle + turn ELSE S.steeringAngle
             a2 == IF k.right THEN a1 - turn ELSE a1
             a3 == Clamp(a2, -RoundDiv(Pi, 3), RoundDiv(Pi, 3))
         IN [S EXCEPT !.velocity = v3,
                      !.steeringAngle =
                          IF Abs(v3) > steerDeadzone THEN a3 ELSE S.steeringAngle]

\* 1. MOVEMENT PHYSICS
\* MovementPhysics that brakes before it accelerates
MovementPhysicsBrakeFirst(S, k) ==
    IF S.isFalling THEN S
    ELSE LET v0 == IF k.brake THEN Mul(S.velocity, brakeFactor) ELSE S.velocity
             v2 == IF k.forward THEN v0 + acceleration
                   ELSE IF k.backward THEN v0 - deceleration
                   ELSE Mul(v0, friction)
             v3 == Clamp(v2, -Mul(maxSpeed, reverseScale), maxSpeed)
             steerFactor == RoundDiv(Abs(v3) * Unit, maxSpeed)
             dir == IF v3 > 0 THEN 1 ELSE -1
             turn == Mul(turnSpeed, steerFactor) * dir
             a1 == IF k.left THEN S.steeringAngle + turn ELSE S.steeringAngle
             a2 == IF k.right THEN a1 - turn ELSE a1
             a3 == Clamp(a2, -RoundDiv(Pi, 3), RoundDiv(Pi, 3))
         IN [S EXCEPT !.velocity = v3,
                      !.steeringAngle =
                          IF Abs(v3) > steerDeadzone THEN a3 ELSE S.steeringAngle]

\* MovementPhysics that turns by the steer visual the wheels show instead of
\* the key flags
MovementPhysicsSteersByWheel(S, k) ==
    IF S.isFalling THEN S
    ELSE LET v1 == IF k.forward THEN S.velocity + acceleration
                   ELSE IF k.backward THEN S.velocity - deceleration
                   ELSE Mul(S.velocity, friction)
             v2 == IF k.brake THEN Mul(v1, brakeFactor) ELSE v1
             v3 == Clamp(v2, -Mul(maxSpeed, reverseScale), maxSpeed)
             steerFactor == RoundDiv(Abs(v3) * Unit, maxSpeed)
             dir == IF v3 > 0 THEN 1 ELSE -1
             turn == Mul(turnSpeed, steerFactor) * dir
             a2 == S.steeringAngle + Mul(turn, S.flWheel.rotation.y)
             a3 == Clamp(a2, -RoundDiv(Pi, 3), RoundDiv(Pi, 3))
         IN [S EXCEPT !.velocity = v3,
                      !.steeringAngle =
                          IF Abs(v3) > steerDeadzone THEN a3 ELSE S.steeringAngle]

MovementPhysics(S, k) ==
    IF S.isFalling THEN S
    ELSE LET v1 == IF k.forward THEN S.velocity + acceleration
                   ELSE IF k.backward THEN S.velocity - deceleration
                   ELSE Mul(S.velocity, friction)
             v2 == IF k.brake THEN Mul(v1, brakeFactor) ELSE v1
             v3 == Clamp(v2, -Mul(maxSpeed, reverseScale), maxSpeed)
             steerFactor == RoundDiv(Abs(v3) * Unit, maxSpeed)
             dir == IF v3 > 0 THEN 1 ELSE -1
             turn == Mul(turnSpeed, steerFactor) * dir
             a1 == IF k.left THEN S.steeringAngle + turn ELSE S.steeringAngle
             a2 == IF k.right THEN a1 - turn ELSE a1
             a3 == Clamp(a2, -RoundDiv(Pi, 3), RoundDiv(Pi, 3))
         IN [S EXCEPT !.velocity = v3,
                      !.steeringAngle =
                          IF Abs(v3) > steerDeadzone THEN a3 ELSE S.steeringAngle]

\* RelativeWorldMovement that scrolls the world only under a grounded vehicle
RelativeWorldMovementGrounded(S) ==
    LET moveX == IF S.isFalling THEN 0 ELSE Mul(Sin(S.steeringAngle), S.velocity)
        moveZ == IF S.isFalling THEN 0 ELSE Mul(Cos(S.steeringAngle), S.velocity)
    IN [S EXCEPT !.worldRef.position.x = @ + moveX,
                 !.worldRef.position.z = @ + moveZ,
                 !.worldRef.rotation = Zero3]

\* 2. RELATIVE WORLD MOVEMENT
RelativeWorldMovement(S) ==
    LET moveX == Mul(Sin(S.steeringAngle), S.velocity)
        moveZ == Mul(Cos(S.steeringAngle), S.velocity)
    IN [S EXCEPT !.worldRef.position.x = @ + moveX,
                 !.worldRef.position.z = @ + moveZ,
                 !.worldRef.rotation = Zero3]

\* the terrain meshes are flat (planes turned to face +Y), so the hit normal
\* is (0, 1, 0): targetPitch = asin(n.x) = 0, targetRoll = -asin(n.z) = 0
targetPitch == 0 * Unit

targetRoll == 0 * Unit

\* GroundAlignment that probes while falling too and lands again on a hit
GroundAlignmentRelanding(S, hit, delta) ==
    IF hit
    THEN [S EXCEPT !.hasLanded = TRUE, !.isFalling = FALSE,
                   !.carGroupRef.rotation = Vec(0, S.steeringAngle, 0)]
    ELSE IF S.hasLanded THEN [S EXCEPT !.isFalling = TRUE] ELSE S

\* GroundAlignment without the hasLanded guard: any miss starts a fall
GroundAlignmentUnguarded(S, hit, delta) ==
    IF S.isFalling THEN S
    ELSE IF hit
         THEN [S EXCEPT !.hasLanded = TRUE,
                        !.carGroupRef.rotation = Vec(0, S.steeringAngle, 0)]
         ELSE [S EXCEPT !.isFalling = TRUE]

\* 3. GROUND ALIGNMENT: the probe; hit = the raycast found a mesh named
\* 'Terrain' under the vehicle
GroundAlignment(S, hit, delta) ==
    IF S.isFalling THEN S
    ELSE IF hit
         THEN [S EXCEPT !.hasLanded = TRUE,
                        !.carGroupRef.rotation =
                            Vec(Lerp(@.x, targetPitch, delta * 5),
                                S.steeringAngle,
                                Lerp(@.z, targetRoll, delta * 5))]
         ELSE IF S.hasLanded THEN [S EXCEPT !.isFalling = TRUE] ELSE S

\* Respawn that keeps the speed
RespawnKeepsSpeed(S, rnd) ==
    [S EXCEPT !.cubeStates = handleRespawn(@, rnd),
              !.respawnCalls = @ + 1,
              !.worldRef.position.x = 0,
              !.steeringAngle = 0,
              !.isFalling = FALSE,
              !.verticalVelocity = 0,
              !.hasLanded = FALSE,
              !.carGroupRef.position = Vec(0, 500, 0),
              !.carGroupRef.rotation = Zero3]

\* Respawn that lifts the vehicle relative to where it is
RespawnRelative(S, rnd) ==
    [S EXCEPT !.cubeStates = handleRespawn(@, rnd),
              !.respawnCalls = @ + 1,
              !.worldRef.position.x = 0,
              !.velocity = 0,
              !.steeringAngle = 0,
              !.isFalling = FALSE,
              !.verticalVelocity = 0,
              !.hasLanded = FALSE,
              !.carGroupRef.position.y = @ + 500,
              !.carGroupRef.rotation = Zero3]

\* Respawn that does not invoke onRespawn
RespawnWithoutCallback(S, rnd) ==
    [S EXCEPT !.worldRef.position.x = 0,
              !.velocity = 0,
              !.steeringAngle = 0,
              !.isFalling = FALSE,
              !.verticalVelocity = 0,
              !.hasLanded = FALSE,
              !.carGroupRef.position = Vec(0, 500, 0),
              !.carGroupRef.rotation = Zero3]

\* the respawn block ("HARD RESET")
Respawn(S, rnd) ==
    [S EXCEPT !.cubeStates = handleRespawn(@, rnd),
              !.respawnCalls = @ + 1,
              !.worldRef.position.x = 0,
              !.velocity = 0,
              !.steeringAngle = 0,
              !.isFalling = FALSE,
              !.verticalVelocity = 0,
              !.hasLanded = FALSE,
              !.carGroupRef.position = Vec(0, 500, 0),
              !.carGroupRef.rotation = Zero3]

\* Falling with a terminal velocity of 0.1 per frame
FallingTerminalVelocity(S, rnd) ==
    IF S.isFalling
    THEN LET vv == Max(S.verticalVelocity - gravity, -100)
             y == S.carGroupRef.position.y + vv
             S1 == [S EXCEPT !.verticalVelocity = vv,
                             !.carGroupRef.position.y = y]
         IN IF y < respawnDepth THEN Respawn(S1, rnd) ELSE S1
    ELSE [S EXCEPT !.carGroupRef.position.y = 0]

\* Falling that moves the vehicle before it applies gravity
FallingPositionFirst(S, rnd) ==
    IF S.isFalling
    THEN LET y == S.carGroupRef.position.y + S.verticalVelocity
             S1 == [S EXCEPT !.verticalVelocity = @ - gravity,
                             !.carGroupRef.position.y = y]
         IN IF y < respawnDepth THEN Respawn(S1, rnd) ELSE S1
    ELSE [S EXCEPT !.carGroupRef.position.y = 0]

\* 3. FALLING: gravity and the respawn, or the pinned ride height
Falling(S, rnd) ==
    IF S.isFalling
    THEN LET vv == S.verticalVelocity - gravity
             y == S.carGroupRef.position.y + vv
             S1 == [S EXCEPT !.verticalVelocity = vv,
                             !.carGroupRef.position.y = y]
         IN IF y < respawnDepth THEN Respawn(S1, rnd) ELSE S1
    ELSE [S EXCEPT !.carGroupRef.position.y = 0]

\* the wheel-spin accumulators
WheelSpin(S) ==
    LET rotationSpeed == Mul(S.velocity, spinGain)
    IN [fl |-> S.wheelRotations.fl + rotationSpeed,
        fr |-> S.wheelRotations.fr + rotationSpeed,
        rl |-> S.wheelRotations.rl + rotationSpeed,
        rr |-> S.wheelRotations.rr + rotationSpeed]

\* the steer visual of the front wheels: lerp(flWheel.rotation.y, target, 12 delta)
SmoothSteer(S, k, delta) ==
    LET targetSteerAngle == IF k.left THEN Unit ELSE IF k.right THEN -Unit ELSE 0
    IN Lerp(S.flWheel.rotation.y, targetSteerAngle, delta * 12)

\* 4. VISUAL PHYSICS: body lean (both targets 0), wheel spin, steer visual
VisualPhysics(S, k, delta) ==
    [S EXCEPT !.carModelRef.rotation =
                  [x |-> Lerp(@.x, 0, delta * 4), z |-> Lerp(@.z, 0, delta * 8)],
              !.wheelRotations = WheelSpin(S),
              !.flWheel.rotation.y = SmoothSteer(S, k, delta)]

\* Vector3.normalize(): divideScalar(length() || 1)
Normalize(v) ==
    LET len == IF Length(v) = 0 THEN Unit ELSE Length(v)
    IN Vec(RoundDiv(v.x * Unit, len), RoundDiv(v.y * Unit, len),
           RoundDiv(v.z * Unit, len))

\* whether a prop is inside the contact radius of the vehicle
InContact(cube, worldPos) ==
    Length(Vec(cube.position.x + worldPos.x, 0, cube.position.z + worldPos.z))
        < contactRadius

\* CollideCube without the early return for fallen cubes
CollideCubeIgnoringFallen(cube, worldPos, speed) ==
    IF InContact(cube, worldPos)
    THEN [cube EXCEPT !.velocity =
             Vec(@.x, @.y + Mul(pushUp, Mul(Abs(speed), impulseGain) + baseImpulse),
                 @.z)]
    ELSE cube

\* CollideCube whose impulse is proportional to the speed, with no base part
CollideCubeNoBase(cube, worldPos, speed) ==
    IF cube.fallen THEN cube
    ELSE LET cubeGlobal == Vec(cube.position.x + worldPos.x,
                               cube.position.y + worldPos.y,
                               cube.position.z + worldPos.z)
             dist == Length(Vec(cubeGlobal.x, 0, cubeGlobal.z))
             pushDir == [Normalize(cubeGlobal) EXCEPT !.y = pushUp]
             scale == Mul(Abs(speed), impulseGain)
         IN IF dist < contactRadius
            THEN [cube EXCEPT !.velocity =
                     Vec(@.x + Mul(pushDir.x, scale), @.y + Mul(pushDir.y, scale),
                         @.z + Mul(pushDir.z, scale))]
            ELSE cube

\* the forEach body of 5. CUBE COLLISIONS, for one cube
CollideCube(cube, worldPos, speed) ==
    IF cube.fallen THEN cube
    ELSE LET cubeGlobal == Vec(cube.position.x + worldPos.x,
                               cube.position.y + worldPos.y,
                               cube.position.z + worldPos.z)
             dist == Length(Vec(cubeGlobal.x, 0, cubeGlobal.z))
             pushDir == [Normalize(cubeGlobal) EXCEPT !.y = pushUp]
             scale == Mul(Abs(speed), impulseGain) + baseImpulse
         IN IF dist < contactRadius
            THEN [cube EXCEPT !.velocity =
                     Vec(@.x + Mul(pushDir.x, scale), @.y + Mul(pushDir.y, scale),
                         @.z + Mul(pushDir.z, scale))]
            ELSE cube

\* CubeCollisions in which a prop in contact also slows the vehicle down
CubeCollisionsPushback(S) ==
    [S EXCEPT !.cubeStates =
        [i \in 1..Len(@) |-> CollideCube(@[i], S.worldRef.position, S.velocity)],
              !.velocity =
        IF \E i \in 1..Len(S.cubeStates) :
               InContact(S.cubeStates[i], S.worldRef.position)
        THEN Mul(@, 500) ELSE @]

\* 5. CUBE COLLISIONS
CubeCollisions(S) ==
    [S EXCEPT !.cubeStates =
        [i \in 1..Len(@) |-> CollideCube(@[i], S.worldRef.position, S.velocity)]]

\* Camera that leaves the orbit where the drag put it
CameraKeepsOrbit(S, drag, delta) ==
    LET speedFactor == RoundDiv(S.velocity * Unit, maxSpeed)
        targetDist == 5 * Unit + Mul(speedFactor, 2500)
    IN [S EXCEPT !.cameraDist = Lerp(@, targetDist, delta * 3)]

\* 6. CAMERA: orbit decay and the speed-dependent distance
Camera(S, drag, delta) ==
    LET speedFactor == RoundDiv(S.velocity * Unit, maxSpeed)
        targetDist == 5 * Unit + Mul(speedFactor, 2500)
    IN [S EXCEPT !.cameraOrbit.x = IF drag THEN @ ELSE Lerp(@, 0, delta * 2),
                 !.cameraDist = Lerp(@, targetDist, delta * 3)]

\* what a frame records about itself (read by the properties below)
Trace(S0, S2, S3, S4, S5, S6, hit) ==
    [ran |-> TRUE,
     hit |-> hit,
     wasFalling |-> S0.isFalling,
     hadLanded |-> S0.hasLanded,
     probed |-> ~S2.isFalling,
     fallStarted |-> ~S2.isFalling /\ S3.isFalling,
     respawned |-> S3.isFalling /\ ~S4.isFalling,
     entry |-> S0,
     scrolled |-> S2.worldRef.position,
     pre5 |-> S5,
     post5 |-> S6]

\* useFrame that moves the world by the speed per second, scaled by the frame
\* time (1 at 60 frames per second)
useFramePerSecond(S, k, drag, hit, delta, rnd) ==
    LET S1 == MovementPhysics(S, k)
        S2 == RelativeWorldMovement(
                  [S1 EXCEPT !.velocity = Mul(@, 60 * delta)])
        S3 == GroundAlignment([S2 EXCEPT !.velocity = S1.velocity], hit, delta)
        S4 == Falling(S3, rnd)
        S5 == VisualPhysics(S4, k, delta)
        S6 == CubeCollisions(S5)
        S7 == Camera(S6, drag, delta)
    IN [state |-> S7, trace |-> Trace(S, S2, S3, S4, S5, S6, hit)]

\* useFrame whose prop interaction reads the speed and the world anchor the
\* frame started with
useFrameStaleProps(S, k, drag, hit, delta, rnd) ==
    LET S1 == MovementPhysics(S, k)
        S2 == RelativeWorldMovement(S1)
        S3 == GroundAlignment(S2, hit, delta)
        S4 == Falling(S3, rnd)
        S5 == VisualPhysics(S4, k, delta)
        S6 == [S5 EXCEPT !.cubeStates =
                  [i \in 1..Len(@) |->
                      CollideCube(@[i], S.worldRef.position, S.velocity)]]
        S7 == Camera(S6, drag, delta)
    IN [state |-> S7, trace |-> Trace(S, S2, S3, S4, S5, S6, hit)]

\* the whole useFrame callback of the looping-road CarController
useFrame(S, k, drag, hit, delta, rnd) ==
    LET S1 == MovementPhysics(S, k)
        S2 == RelativeWorldMovement(S1)
        S3 == GroundAlignment(S2, hit, delta)
        S4 == Falling(S3, rnd)
        S5 == VisualPhysics(S4, k, delta)
        S6 == CubeCollisions(S5)
        S7 == Camera(S6, drag, delta)
    IN [state |-> S7, trace |-> Trace(S, S2, S3, S4, S5, S6, hit)]

\* ------------------------------- CarController (bounded world), useFrame
\* 1. MOVEMENT PHYSICS: as above, the heading is not clamped
MovementPhysicsBounded(S, k) ==
    IF S.isFalling THEN S
    ELSE LET v1 == IF k.forward THEN S.velocity + acceleration
                   ELSE IF k.backward THEN S.velocity - deceleration
                   ELSE Mul(S.velocity, friction)
             v2 == IF k.brake THEN Mul(v1, brakeFactor) ELSE v1
             v3 == Clamp(v2, -Mul(maxSpeed, reverseScale), maxSpeed)
             steerFactor == RoundDiv(Abs(v3) * Unit, maxSpeed)
             dir == IF v3 > 0 THEN 1 ELSE -1
             turn == Mul(turnSpeed, steerFactor) * dir
             a1 == IF k.left THEN S.steeringAngle + turn ELSE S.steeringAngle
             a2 == IF k.right THEN a1 - turn ELSE a1
         IN [S EXCEPT !.velocity = v3,
                      !.steeringAngle =
                          IF Abs(v3) > steerDeadzone THEN a2 ELSE S.steeringAngle]

\* RelativeWorldMovementBounded whose bounds check waits for the first landing
RelativeWorldMovementBoundedLanded(S) ==
    LET moveX == Mul(Sin(S.steeringAngle), S.velocity)
        moveZ == Mul(Cos(S.steeringAngle), S.velocity)
        x == S.worldRef.position.x - moveX
        z == S.worldRef.position.z - moveZ
        distFromCenter == Length(Vec(x, 0, z))
    IN [S EXCEPT !.worldRef.position.x = x,
                 !.worldRef.position.z = z,
                 !.worldRef.rotation = Zero3,
                 !.isFalling = IF distFromCenter > worldRadius /\ S.hasLanded
                               THEN TRUE ELSE @]

\* 2. RELATIVE WORLD MOVEMENT and the bounds check
RelativeWorldMovementBounded(S) ==
    LET moveX == Mul(Sin(S.steeringAngle), S.velocity)
        moveZ == Mul(Cos(S.steeringAngle), S.velocity)
        x == S.worldRef.position.x - moveX
        z == S.worldRef.position.z - moveZ
        distFromCenter == Length(Vec(x, 0, z))
    IN [S EXCEPT !.worldRef.position.x = x,
                 !.worldRef.position.z = z,
                 !.worldRef.rotation = Zero3,
                 !.isFalling = IF distFromCenter > worldRadius THEN TRUE ELSE @]

\* 3. GROUND ALIGNMENT: the probe (the same code as in the looping variant)
GroundAlignmentBounded(S, hit, delta) ==
    IF S.isFalling THEN S
    ELSE IF hit
         THEN [S EXCEPT !.hasLanded = TRUE,
                        !.carGroupRef.rotation =
                            Vec(Lerp(@.x, targetPitch, delta * 5),
                                S.steeringAngle,
                                Lerp(@.z, targetRoll, delta * 5))]
         ELSE IF S.hasLanded THEN [S EXCEPT !.isFalling = TRUE] ELSE S

\* groundY: -100 unless the probe ran and hit (the terrain lies at y = 0)
GroundY(S, hit) == IF ~S.isFalling /\ hit THEN 0 * Unit ELSE groundYDefault

\* RespawnBounded that puts the world anchor at the spawn height of the car
RespawnBoundedLiftsWorld(S, rnd) ==
    [S EXCEPT !.cubeStates = handleRespawn(@, rnd),
              !.respawnCalls = @ + 1,
              !.worldRef.position = Vec(0, 1 * Unit, 0),
              !.velocity = 0,
              !.steeringAngle = 0,
              !.isFalling = FALSE,
              !.verticalVelocity = 0,
              !.hasLanded = FALSE,
              !.carGroupRef.position.y = 1 * Unit,
              !.carGroupRef.rotation = Zero3]

\* the respawn block
RespawnBounded(S, rnd) ==
    [S EXCEPT !.cubeStates = handleRespawn(@, rnd),
              !.respawnCalls = @ + 1,
              !.worldRef.position = Zero3,
              !.velocity = 0,
              !.steeringAngle = 0,
              !.isFalling = FALSE,
              !.verticalVelocity = 0,
              !.hasLanded = FALSE,
              !.carGroupRef.position.y = 1 * Unit,
              !.carGroupRef.rotation = Zero3]

\* 3. FALLING: gravity and the respawn, or the ride height lerped to groundY
FallingBounded(S, groundY, delta, rnd) ==
    IF S.isFalling
    THEN LET vv == S.verticalVelocity - gravity
             y == S.carGroupRef.position.y + vv
             S1 == [S EXCEPT !.verticalVelocity = vv,
                             !.carGroupRef.position.y = y]
         IN IF y < respawnDepth THEN RespawnBounded(S1, rnd) ELSE S1
    ELSE [S EXCEPT !.carGroupRef.position.y = Lerp(@, groundY, delta * 15)]

\* the body's pitch target: a tiny nose lift or dip
leanPitch(k) ==
    IF k.backward \/ k.brake THEN 15 ELSE IF k.forward THEN -10 ELSE 0

\* 4. VISUAL PHYSICS: body lean, wheel spin, steer visual
VisualPhysicsBounded(S, k, delta) ==
    [S EXCEPT !.carModelRef.rotation =
                  [x |-> Lerp(@.x, leanPitch(k), delta * 4),
                   z |-> Lerp(@.z, 0, delta * 8)],
              !.wheelRotations = WheelSpin(S),
              !.flWheel.rotation.y = SmoothSteer(S, k, delta)]

\* the whole useFrame callback of the bounded-world CarController
useFrameBounded(S, k, drag, hit, delta, rnd) ==
    LET S1 == MovementPhysicsBounded(S, k)
        S2 == RelativeWorldMovementBounded(S1)
        S3 == GroundAlignmentBounded(S2, hit, delta)
        S4 == FallingBounded(S3, GroundY(S2, hit), delta, rnd)
        S5 == VisualPhysicsBounded(S4, k, delta)
        S6 == CubeCollisions(S5)
        S7 == Camera(S6, drag, delta)
    IN [state |-> S7, trace |-> Trace(S, S2, S3, S4, S5, S6, hit)]

\* ------------------------------------------------------------- the program
NoKeys == [i \in Intents |-> FALSE]

\* useKeyboard's initial state
NoActions == [i \in Actions |-> FALSE]

\* the car model group and the wheel group as they are mounted
StartModel == [rotation |-> [x |-> 0, z |-> 0]]

StartWheel == [rotation |-> [y |-> 0]]

StartCubes ==
    [i \in 1..NumCubes |->
        [position |-> IF i = 1 THEN Vec(0, 1000, 2000)
                      ELSE Vec(1500 * i, 1000, -4000),
         velocity |-> Zero3, fallen |-> FALSE]]

Init ==
    /\ variant \in Variants
    /\ keys = NoKeys
    /\ velocity = 0
    /\ steeringAngle = 0
    /\ isFalling = FALSE
    /\ hasLanded = FALSE
    /\ verticalVelocity = 0
    /\ cameraOrbit = [x |-> 0, y |-> 350]
    /\ isDragging = FALSE
    /\ cameraDist = 5 * Unit
    /\ wheelRotations = [fl |-> 0, fr |-> 0, rl |-> 0, rr |-> 0]
    /\ carModelRef = StartModel
    /\ flWheel = StartWheel
    /\ actions = NoActions
    /\ worldRef = [position |-> Zero3, rotation |-> Zero3]
    /\ carGroupRef = [position |-> Vec(0, 1 * Unit, 0), rotation |-> Zero3]
    /\ cubeStates = StartCubes
    /\ roadZ = StartRoad
    /\ pc = "car"
    /\ respawnCalls = 0
    /\ last = [Trace(State, State, State, State, State, State, FALSE)
                 EXCEPT !.ran = FALSE]
    /\ groundFrames = 0
    /\ inputEvents = 0
    /\ falls = 0

\* the random draws of a frame in which no respawn fires (none are made)
NoRandom == [i \in 1..NumCubes |-> Zero3]

\* the frame's writes
Commit(R) ==
    /\ velocity' = R.state.velocity
    /\ steeringAngle' = R.state.steeringAngle
    /\ isFalling' = R.state.isFalling
    /\ hasLanded' = R.state.hasLanded
    /\ verticalVelocity' = R.state.verticalVelocity
    /\ cameraOrbit' = R.state.cameraOrbit
    /\ cameraDist' = R.state.cameraDist
    /\ wheelRotations' = R.state.wheelRotations
    /\ carModelRef' = R.state.carModelRef
    /\ flWheel' = R.state.flWheel
    /\ worldRef' = R.state.worldRef
    /\ carGroupRef' = R.state.carGroupRef
    /\ cubeStates' = R.state.cubeStates
    /\ respawnCalls' = R.state.respawnCalls
    /\ last' = R.trace
    /\ groundFrames' = IF isFalling THEN groundFrames ELSE groundFrames + 1
    /\ R.trace.fallStarted => falls < MaxFalls
    /\ falls' = IF R.trace.fallStarted THEN falls + 1 ELSE falls
    /\ pc' = IF variant = "loop" THEN "road" ELSE "cubes"
    /\ UNCHANGED <<variant, keys, actions, isDragging, inputEvents, roadZ>>

\* one frame of the looping-road CarController
CarControllerFrame ==
    /\ pc = "car"
    /\ variant = "loop"
    /\ isFalling \/ groundFrames < MaxGroundFrames
    /\ \E hit \in BOOLEAN, delta \in Deltas :
          \E R0 \in {useFrame(State, keys, isDragging, hit, delta, NoRandom)} :
              IF R0.trace.respawned
              THEN \E rnd \in [1..NumCubes -> RespawnPositions] :
                      \E R \in {useFrame(State, keys, isDragging, hit, delta, rnd)} :
                          Commit(R)
              ELSE Commit(R0)

\* one frame of the bounded-world CarController
CarControllerFrameBounded ==
    /\ pc = "car"
    /\ variant = "bounded"
    /\ isFalling \/ groundFrames < MaxGroundFrames
    /\ \E hit \in BOOLEAN, delta \in Deltas :
          \E R0 \in {useFrameBounded(State, keys, isDragging, hit, delta, NoRandom)} :
              IF R0.trace.respawned
              THEN \E rnd \in [1..NumCubes -> RespawnPositions] :
                      \E R \in {useFrameBounded(State, keys, isDragging, hit,
                                                delta, rnd)} :
                          Commit(R)
              ELSE Commit(R0)

\* InfiniteRoad's useFrame callback, which runs after CarController's in the
\* same render tick (the looping-road Game mounts it inside the world anchor)
InfiniteRoadFrame ==
    /\ pc = "road"
    /\ roadZ' = InfiniteRoadUseFrame(roadZ, worldRef.position.z)
    /\ pc' = "cubes"
    /\ UNCHANGED <<variant, keys, velocity, steeringAngle, isFalling, hasLanded,
                   verticalVelocity, cameraOrbit, isDragging, cameraDist,
                   wheelRotations, carModelRef, flWheel, actions, worldRef,
                   carGroupRef, cubeStates, respawnCalls, last, groundFrames,
                   inputEvents, falls>>

\* the Cube components' useFrame callbacks, which run after CarController's
\* in the same render tick
CubeFrames ==
    /\ pc = "cubes"
    /\ cubeStates' = [i \in 1..Len(cubeStates) |-> CubeUseFrame(cubeStates[i])]
    /\ pc' = "car"
    /\ UNCHANGED <<variant, keys, velocity, steeringAngle, isFalling, hasLanded,
                   verticalVelocity, cameraOrbit, isDragging, cameraDist,
                   wheelRotations, carModelRef, flWheel, actions, worldRef,
                   carGroupRef, respawnCalls, last, groundFrames, inputEvents,
                   falls, roadZ>>

simulation == <<velocity, steeringAngle, isFalling, hasLanded, verticalVelocity,
                cameraDist, wheelRotations, carModelRef, flWheel, worldRef,
                carGroupRef, cubeStates, roadZ, respawnCalls, last, groundFrames, falls, variant, pc>>

\* a keydown listener that applies the acceleration itself
keydownAccelerates(code) ==
    /\ pc = "car"
    /\ inputEvents < MaxEvents
    /\ keys' = SetKey(keys, code, TRUE)
    /\ actions' = handleKeyDown(actions, code)
    /\ velocity' = IF IntentOf(code) = "forward" THEN velocity + acceleration
                   ELSE velocity
    /\ inputEvents' = inputEvents + 1
    /\ UNCHANGED <<steeringAngle, isFalling, hasLanded, verticalVelocity,
                   cameraDist, wheelRotations, carModelRef, flWheel, worldRef,
                   carGroupRef, cubeStates, respawnCalls, last, groundFrames,
                   falls, variant, pc, cameraOrbit, isDragging, roadZ>>

\* window 'keydown' listener
keydown(code) ==
    /\ pc = "car"
    /\ inputEvents < MaxEvents
    /\ keys' = SetKey(keys, code, TRUE)
    /\ actions' = handleKeyDown(actions, code)
    /\ inputEvents' = inputEvents + 1
    /\ UNCHANGED <<simulation, cameraOrbit, isDragging>>

\* keyup listeners that clear a flag only for the first key mapped to it
keyupFirstKeyOnly(code) ==
    /\ pc = "car"
    /\ inputEvents < MaxEvents
    /\ keys' = IF code \in {"KeyW", "KeyS", "KeyA", "KeyD"} THEN keys
               ELSE SetKey(keys, code, FALSE)
    /\ actions' = IF code \in {"KeyW", "KeyS", "KeyA", "KeyD"} THEN actions
                  ELSE handleKeyUp(actions, code)
    /\ inputEvents' = inputEvents + 1
    /\ UNCHANGED <<simulation, cameraOrbit, isDragging>>

\* window 'keyup' listener
keyup(code) ==
    /\ pc = "car"
    /\ inputEvents < MaxEvents
    /\ keys' = SetKey(keys, code, FALSE)
    /\ actions' = handleKeyUp(actions, code)
    /\ inputEvents' = inputEvents + 1
    /\ UNCHANGED <<simulation, cameraOrbit, isDragging>>

handleMouseDown ==
    /\ pc = "car"
    /\ inputEvents < MaxEvents
    /\ isDragging' = TRUE
    /\ inputEvents' = inputEvents + 1
    /\ UNCHANGED <<simulation, keys, actions, cameraOrbit>>

handleMouseUp ==
    /\ pc = "car"
    /\ inputEvents < MaxEvents
    /\ isDragging' = FALSE
    /\ inputEvents' = inputEvents + 1
    /\ UNCHANGED <<simulation, keys, actions, cameraOrbit>>

\* handleMouseMove that writes the pitch without clamping it
handleMouseMoveNoClamp(movementX, movementY) ==
    /\ pc = "car"
    /\ inputEvents < MaxEvents
    /\ cameraOrbit' =
           IF isDragging
           THEN [x |-> cameraOrbit.x - movementX * mouseSensitivity,
                 y |-> cameraOrbit.y - movementY * mouseSensitivity]
           ELSE cameraOrbit
    /\ inputEvents' = inputEvents + 1
    /\ UNCHANGED <<simulation, keys, actions, isDragging>>

\* handleMouseMove with the sensitivity scaled by the frame time
handleMouseMovePerFrame(movementX, movementY) ==
    /\ pc = "car"
    /\ inputEvents < MaxEvents
    /\ cameraOrbit' =
           IF isDragging
           THEN [x |-> cameraOrbit.x
                         - Mul(movementX * mouseSensitivity,
                               60 * (CHOOSE d \in Deltas : TRUE)),
                 y |-> Clamp(cameraOrbit.y - movementY * mouseSensitivity,
                             pitchMin, pitchMax)]
           ELSE cameraOrbit
    /\ inputEvents' = inputEvents + 1
    /\ UNCHANGED <<simulation, keys, actions, isDragging>>

handleMouseMove(movementX, movementY) ==
    /\ pc = "car"
    /\ inputEvents < MaxEvents
    /\ cameraOrbit' =
           IF isDragging
           THEN [x |-> cameraOrbit.x - movementX * mouseSensitivity,
                 y |-> Clamp(cameraOrbit.y - movementY * mouseSensitivity,
                             pitchMin, pitchMax)]
           ELSE cameraOrbit
    /\ inputEvents' = inputEvents + 1
    /\ UNCHANGED <<simulation, keys, actions, isDragging>>

Next ==
    \/ CarControllerFrame
    \/ CarControllerFrameBounded
    \/ InfiniteRoadFrame
    \/ CubeFrames
    \/ \E code \in Codes : keydown(code)
    \/ \E code \in Codes : keyup(code)
    \/ handleMouseDown
    \/ handleMouseUp
    \/ \E mx \in Movements, my \in Movements : handleMouseMove(mx, my)

Spec == Init /\ [][Next]_vars

\* ------------------------------------------------- runs that start mid-drive
\* key sets held down from before the first frame (the key listeners are
\* installed at module load, before the Game is mounted)
HeldKeySets == {{}, {"forward"}, {"backward"}, {"forward", "left"},
                {"forward", "right"}, {"forward", "brake"}}

\* what is held before a run of SpecDrive starts: a key set, or the pointer
\* button with the vehicle at rest
HeldInputs ==
    {[keys |-> h, drag |-> FALSE] : h \in HeldKeySets}
        \cup {[keys |-> {}, drag |-> TRUE]}

HeldDelta == CHOOSE d \in Deltas : TRUE

\* one render tick over ground: CarController's frame, then the Cubes'
Tick(v, k, drag, W) ==
    CHOOSE T \in
        {[state |-> [R.state EXCEPT !.cubeStates =
                        [i \in 1..Len(@) |-> CubeUseFrame(@[i])]],
          trace |-> R.trace,
          road |-> IF v = "loop"
                   THEN CHOOSE Z \in
                            {InfiniteRoadUseFrame(W.road, anchorZ) :
                                anchorZ \in {R.state.worldRef.position.z}} : TRUE
                   ELSE W.road] :
            R \in {IF v = "loop"
                   THEN useFrame(W.state, k, drag, TRUE, HeldDelta, NoRandom)
                   ELSE useFrameBounded(W.state, k, drag, TRUE, HeldDelta,
                                        NoRandom)}} : TRUE

RECURSIVE Held(_, _, _, _, _)
\* the program after n render ticks over ground with the keys k held
Held(v, k, drag, n, W) ==
    IF n = 0 THEN W
    ELSE CHOOSE Y \in {Held(v, k, drag, n - 1, X) : X \in {Tick(v, k, drag, W)}} :
             TRUE

RECURSIVE HeldRun(_, _, _, _, _)
\* the program before and after each of n more render ticks over ground with
\* the keys k held: run holds the ticks so far, the latest last
HeldRun(v, k, drag, n, run) ==
    IF n = 0 THEN run
    ELSE IF n = 1 THEN Append(run, Tick(v, k, drag, run[Len(run)]))
    ELSE CHOOSE Y \in {HeldRun(v, k, drag, n - n \div 2, X) :
                          X \in {HeldRun(v, k, drag, n \div 2, run)}} : TRUE

Constructed ==
    LET S == [velocity |-> 0, steeringAngle |-> 0, isFalling |-> FALSE,
              hasLanded |-> FALSE, verticalVelocity |-> 0,
              cameraOrbit |-> [x |-> 0, y |-> 350], cameraDist |-> 5 * Unit,
              wheelRotations |-> [fl |-> 0, fr |-> 0, rl |-> 0, rr |-> 0],
              carModelRef |-> StartModel, flWheel |-> StartWheel,
              worldRef |-> [position |-> Zero3, rotation |-> Zero3],
              carGroupRef |-> [position |-> Vec(0, 1 * Unit, 0),
                               rotation |-> Zero3],
              cubeStates |-> StartCubes, respawnCalls |-> 0]
    IN [state |-> S,
        trace |-> [Trace(S, S, S, S, S, S, FALSE) EXCEPT !.ran = FALSE],
        road |-> StartRoad]

InitDrive ==
    \E v \in Variants, held \in HeldInputs :
      \E run \in {HeldRun(v, [i \in Intents |-> i \in held.keys], held.drag,
                           MaxHeldFrames, <<Constructed>>)} :
        \E n \in 0..MaxHeldFrames, fall \in BOOLEAN :
        /\ fall => n <= MaxFallHeldFrames
        /\ \E W \in {run[n + 1]} :
            /\ variant = v
            /\ keys = [i \in Intents |-> i \in held.keys]
            /\ actions = HeldActions(keys)
            /\ velocity = W.state.velocity
            /\ steeringAngle = W.state.steeringAngle
            /\ isFalling = W.state.isFalling
            /\ hasLanded = W.state.hasLanded
            /\ verticalVelocity = W.state.verticalVelocity
            /\ cameraOrbit = W.state.cameraOrbit
            /\ isDragging = held.drag
            /\ cameraDist = W.state.cameraDist
            /\ wheelRotations = W.state.wheelRotations
            /\ carModelRef = W.state.carModelRef
            /\ flWheel = W.state.flWheel
            /\ worldRef = W.state.worldRef
            /\ carGroupRef = W.state.carGroupRef
            /\ cubeStates = W.state.cubeStates
            /\ roadZ = W.road
            /\ pc = "car"
            /\ respawnCalls = W.state.respawnCalls
            /\ last = W.trace
            /\ groundFrames = MaxGroundFrames - 1
            /\ inputEvents = IF fall THEN MaxEvents ELSE MaxEvents - 1
            /\ falls = IF fall THEN MaxFalls - 1 ELSE MaxFalls

SpecDrive == InitDrive /\ [][Next]_vars

\* CarController takes cubeStates as a prop of type CubeState[]. The Cube
\* integrator clamps a prop to groundLevel before it tests the depth, so the
\* Game never hands over a fallen prop; SpecProps runs the controller over
\* every value of the fallen flags its interface admits, for one grounded
\* frame fewer than Spec.
InitProps ==
    \E f \in [1..NumCubes -> BOOLEAN] :
        /\ variant \in Variants
        /\ keys = NoKeys
        /\ velocity = 0
        /\ steeringAngle = 0
        /\ isFalling = FALSE
        /\ hasLanded = FALSE
        /\ verticalVelocity = 0
        /\ cameraOrbit = [x |-> 0, y |-> 350]
        /\ isDragging = FALSE
        /\ cameraDist = 5 * Unit
        /\ wheelRotations = [fl |-> 0, fr |-> 0, rl |-> 0, rr |-> 0]
        /\ carModelRef = StartModel
        /\ flWheel = StartWheel
        /\ actions = NoActions
        /\ worldRef = [position |-> Zero3, rotation |-> Zero3]
        /\ carGroupRef = [position |-> Vec(0, 1 * Unit, 0), rotation |-> Zero3]
        /\ cubeStates = [i \in 1..NumCubes |-> [StartCubes[i] EXCEPT !.fallen = f[i]]]
        /\ roadZ = StartRoad
        /\ pc = "car"
        /\ respawnCalls = 0
        /\ last = [Trace(State, State, State, State, State, State, FALSE)
                     EXCEPT !.ran = FALSE]
        /\ groundFrames = MaxGroundFrames - 2
        /\ inputEvents = 0
        /\ falls = 0

SpecProps == InitProps /\ [][Next]_vars

\* ------------------------------------------- one frame from a drawn state
\* speeds a grounded vehicle can have at the start of a frame (0.15 is where
\* the speed arrives from top speed with forward and brake held)
FrameSpeeds == {-600, 0, 150, 480, 500, 1200}

\* world-anchor offsets along the road at the start of a frame
FrameOffsets == {-500, 0, 500}

\* speed intents at the start of a frame (no steering)
FrameKeys == {k \in [Intents -> BOOLEAN] : ~k.left /\ ~k.right}

\* orbit.yaw left behind by an earlier drag
FrameYaws == {-500, -15, 0, 15, 16, 500}

\* world-anchor offsets half a unit inside the radius of the bounded world
EdgeOffsets == {-399500, 399500}

\* the ride height after many frames without ground under the vehicle
UnlandedHeight == -99998

\* the states a frame is started from: a landed vehicle in the middle of a
\* drive, with any speed intents, and a vehicle next to the edge of the
\* bounded world, landed or still waiting for its first ground hit
FrameStarts ==
    {[keys |-> k, velocity |-> v, yaw |-> yaw, z |-> z, landed |-> TRUE, y |-> 0] :
        k \in FrameKeys, v \in FrameSpeeds, yaw \in FrameYaws, z \in FrameOffsets}
    \cup
    {[keys |-> NoKeys, velocity |-> v, yaw |-> 0, z |-> z, landed |-> l,
      y |-> IF l THEN 0 ELSE UnlandedHeight] :
        v \in FrameSpeeds, z \in EdgeOffsets, l \in BOOLEAN}

\* the frame that follows is checked as a function of the state it starts from
InitFrame ==
    \E start \in FrameStarts :
        /\ variant \in Variants
        /\ start.z \in EdgeOffsets => variant = "bounded"
        /\ keys = start.keys
        /\ velocity = start.velocity
        /\ steeringAngle = 0
        /\ isFalling = FALSE
        /\ hasLanded = start.landed
        /\ verticalVelocity = 0
        /\ cameraOrbit = [x |-> start.yaw, y |-> 350]
        /\ isDragging = FALSE
        /\ cameraDist = 5 * Unit
        /\ wheelRotations = [fl |-> 0, fr |-> 0, rl |-> 0, rr |-> 0]
        /\ carModelRef = StartModel
        /\ flWheel = StartWheel
        /\ actions = HeldActions(keys)
        /\ worldRef = [position |-> Vec(0, 0, start.z), rotation |-> Zero3]
        /\ carGroupRef = [position |-> Vec(0, start.y, 0), rotation |-> Zero3]
        /\ cubeStates = StartCubes
        /\ roadZ = StartRoad
        /\ pc = "car"
        /\ respawnCalls = 0
        /\ last = [Trace(State, State, State, State, State, State, FALSE)
                     EXCEPT !.ran = FALSE]
        /\ groundFrames = MaxGroundFrames - 1
        /\ inputEvents = MaxEvents - 1
        /\ falls = MaxFalls

SpecFrame == InitFrame /\ [][Next]_vars

\* ================================================================ claims
\* a step that is one CarController frame
IsCarFrame == pc = "car" /\ pc' # "car"

Cubes == 1..NumCubes

\* C1: after every frame step, for every intent vector and from every
\* reachable state, the speed lies in [-maxSpeed * 0.5, maxSpeed], also in
\* falling frames and right after a respawn
C1_SpeedInRange ==
    /\ velocity >= -Mul(maxSpeed, reverseScale)
    /\ velocity <= maxSpeed

\* a frame in which the clamp cut the speed: forward held at top speed
C1_Witness ==
    /\ last.ran
    /\ keys.forward
    /\ last.entry.velocity + acceleration > maxSpeed
    /\ ~last.entry.isFalling
    /\ velocity = maxSpeed

\* C2: isFalling goes from true to false only in a frame that calls
\* onRespawn, also when ground is under the vehicle during the fall
C2_FallEndsOnlyByRespawn ==
    [][(isFalling /\ ~isFalling') => respawnCalls' = respawnCalls + 1]_vars

\* a falling frame with ground under the vehicle, after which it still falls
C2_Witness ==
    /\ last.ran
    /\ last.wasFalling
    /\ last.hit
    /\ isFalling

\* C3: in the looping-road controller a frame that starts grounded with
\* hasLanded true and whose probe misses ends FALLING with gravity applied
\* once, and FALLING is entered in no other way
C3_FallStartsOnMissAfterLanding ==
    [][(IsCarFrame /\ variant = "loop") =>
          /\ (~isFalling /\ hasLanded /\ ~last'.hit) =>
                 /\ isFalling'
                 /\ verticalVelocity' = verticalVelocity - gravity
                 /\ carGroupRef'.position.y =
                        carGroupRef.position.y + verticalVelocity'
          /\ (~isFalling /\ isFalling') => (hasLanded /\ ~last'.hit)]_vars

\* the frame in which a fall started, in the looping-road controller
C3_Witness ==
    /\ variant = "loop"
    /\ last.ran
    /\ last.fallStarted
    /\ last.hadLanded /\ ~last.hit
    /\ isFalling
    /\ verticalVelocity = -gravity

\* C4 as claimed: while hasLanded is false a probe miss leaves the vehicle
\* grounded, hasLanded false, verticalVelocity 0 and the local height not
\* dropping (not below the ground it stands on)
C4_MissBeforeLandingChangesNothing ==
    [][(IsCarFrame /\ ~isFalling /\ ~hasLanded /\ ~last'.hit) =>
          /\ ~isFalling'
          /\ ~hasLanded'
          /\ verticalVelocity' = 0
          /\ carGroupRef'.position.y >= 0]_vars

\* C5: at the end of a frame in which the respawn fired the vehicle is at
\* rest in the spawn pose; the looping-road controller has reset the
\* anchor's x and left its z as the scroll step made it, the bounded-world
\* controller has reset the whole anchor
C5_StateAfterRespawn ==
    last.respawned =>
        /\ velocity = 0
        /\ steeringAngle = 0
        /\ verticalVelocity = 0
        /\ ~hasLanded
        /\ ~isFalling
        /\ carGroupRef.rotation = Zero3
        /\ variant = "loop" =>
               /\ carGroupRef.position = Vec(0, 500, 0)
               /\ worldRef.position.x = 0
               /\ worldRef.position.z = last.scrolled.z
        /\ variant = "bounded" =>
               /\ carGroupRef.position = Vec(0, 1 * Unit, 0)
               /\ worldRef.position = Zero3

\* a respawn of the looping-road controller after the world had scrolled
C5_Witness ==
    /\ last.respawned
    /\ variant = "loop"
    /\ last.entry.velocity # 0
    /\ last.entry.worldRef.position.x # 0
    /\ worldRef.position.z # 0

\* the VehicleState part of the controller's state
VehicleState(S) ==
    [speed |-> S.velocity, heading |-> S.steeringAngle,
     localTransform |-> S.carGroupRef, falling |-> S.isFalling,
     hasEverLanded |-> S.hasLanded, verticalVelocity |-> S.verticalVelocity,
     wheelSpin |-> S.wheelRotations]

\* C6: respawn is idempotent in its resulting state: in the state a respawn
\* left, firing the respawn block again changes nothing of VehicleState
C6_RespawnIdempotent ==
    last.respawned =>
        \A rnd \in [1..NumCubes -> RespawnPositions] :
            VehicleState(IF variant = "loop" THEN Respawn(State, rnd)
                         ELSE RespawnBounded(State, rnd)) = VehicleState(State)

\* the state a respawn left, with wheel-spin accumulated before it
C6_Witness ==
    /\ last.respawned
    /\ pc = "car"
    /\ wheelRotations.fl # 0

\* C7: onRespawn is invoked exactly once in a frame in which the vehicle
\* goes from FALLING to GROUNDED and in no other step, and the frame after
\* such a frame does not go from FALLING to GROUNDED again
C7_OnRespawnOncePerRespawn ==
    [][/\ respawnCalls' = respawnCalls +
                             (IF IsCarFrame /\ last'.respawned THEN 1 ELSE 0)
       /\ (IsCarFrame /\ last.respawned) =>
              (~last'.respawned /\ respawnCalls' = respawnCalls)]_vars

\* the end of the frame that follows a respawn frame
C7_Witness ==
    /\ last.ran
    /\ ~last.respawned
    /\ last.entry.respawnCalls = 1
    /\ last.entry.carGroupRef.position.y = 500
    /\ respawnCalls = 1

\* C8: in a frame in which the respawn fires, the Prop Interaction stage
\* of that frame (the first one after the reset) sees every prop reset:
\* not fallen, zero velocity, a fresh position
C8_PropsResetBeforeInteraction ==
    last.respawned =>
        \A i \in Cubes :
            /\ ~last.pre5.cubeStates[i].fallen
            /\ last.pre5.cubeStates[i].velocity = Zero3
            /\ last.pre5.cubeStates[i].position \in RespawnPositions

\* a respawn that fired while one prop was moving and another was fallen
C8_Witness ==
    /\ last.respawned
    /\ \E i \in Cubes : last.entry.cubeStates[i].velocity # Zero3
    /\ \E i \in Cubes : last.entry.cubeStates[i].fallen

\* C9: the Prop Interaction stage leaves a prop flagged fallen as it is,
\* whatever its distance to the vehicle
C9_FallenPropUntouched ==
    last.ran =>
        \A i \in Cubes :
            last.pre5.cubeStates[i].fallen =>
                last.post5.cubeStates[i] = last.pre5.cubeStates[i]

\* a Prop Interaction pass over a fallen prop inside the contact radius
C9_Witness ==
    /\ last.ran
    /\ \E i \in Cubes :
           /\ last.pre5.cubeStates[i].fallen
           /\ InContact(last.pre5.cubeStates[i], last.pre5.worldRef.position)

\* C10: the Prop Interaction stage changes only the velocity of props
\* inside the contact radius; the vehicle, the world anchor and every
\* prop's position and fallen flag are as before the stage
C10_InteractionOneSided ==
    last.ran =>
        /\ VehicleState(last.post5) = VehicleState(last.pre5)
        /\ last.post5.worldRef = last.pre5.worldRef
        /\ \A i \in Cubes :
               /\ last.post5.cubeStates[i].position =
                      last.pre5.cubeStates[i].position
               /\ last.post5.cubeStates[i].fallen = last.pre5.cubeStates[i].fallen
               /\ last.post5.cubeStates[i].velocity #
                      last.pre5.cubeStates[i].velocity =>
                      InContact(last.pre5.cubeStates[i],
                                last.pre5.worldRef.position)

\* a pass in which a moving vehicle pushed a prop and passed over a fallen one
C10_Witness ==
    /\ last.ran
    /\ last.pre5.velocity # 0
    /\ \E i \in Cubes :
           last.post5.cubeStates[i].velocity # last.pre5.cubeStates[i].velocity
    /\ \E i \in Cubes : last.pre5.cubeStates[i].fallen

\* a frame that starts on the ground with forward, backward and brake all
\* unasserted and a nonzero speed
CoastingFrame ==
    /\ IsCarFrame
    /\ ~isFalling
    /\ ~keys.forward /\ ~keys.backward /\ ~keys.brake
    /\ velocity # 0

C12_NoSteeringAtRest ==
    [][(IsCarFrame /\ ~isFalling /\ velocity = 0) =>
          steeringAngle' = steeringAngle]_vars

\* C12, amended: a frame that starts on the ground leaves the heading as it
\* is when the speed it has computed is inside the deadzone; this is so for
\* a start at speed 0 with neither forward nor backward asserted, whatever
\* left, right and brake are
C12_NoSteeringInsideDeadzone ==
    [][(IsCarFrame /\ ~isFalling /\ ~last'.respawned) =>
          /\ Abs(velocity') <= steerDeadzone => steeringAngle' = steeringAngle
          /\ (velocity = 0 /\ ~keys.forward /\ ~keys.backward) =>
                 (velocity' = 0 /\ steeringAngle' = steeringAngle)]_vars

\* the end of a frame at rest with a steering key held
C12_Witness ==
    /\ pc = "cubes"
    /\ ~last.wasFalling
    /\ keys.left \/ keys.right
    /\ last.entry.velocity = 0
    /\ velocity = 0
    /\ steeringAngle = last.entry.steeringAngle

\* C13 as claimed: at the end of every frame the local yaw of the vehicle
\* equals the heading
C13_YawEqualsHeading ==
    last.ran => carGroupRef.rotation.y = steeringAngle

C15_AnchorRotationAndHeight ==
    /\ worldRef.rotation = Zero3
    /\ worldRef.position.y = 0

\* the end of a respawn frame of the bounded-world controller that put a
\* scrolled anchor back
C15_Witness ==
    /\ variant = "bounded"
    /\ last.respawned
    /\ last.scrolled.z # 0
    /\ worldRef.position = Zero3

\* a frame that starts FALLING and does not end in the respawn
FallingFrame == IsCarFrame /\ isFalling /\ ~last'.respawned

\* what stage 1 makes of the speed and the heading of a vehicle on the ground
GroundedPhysics ==
    IF variant = "loop"
    THEN MovementPhysics([State EXCEPT !.isFalling = FALSE], keys)
    ELSE MovementPhysicsBounded([State EXCEPT !.isFalling = FALSE], keys)

\* C16 as claimed: while the vehicle is FALLING every frame updates speed
\* and heading from the intent vector exactly as on the ground
C16_PhysicsRunsWhileFalling ==
    [][FallingFrame =>
          /\ velocity' = GroundedPhysics.velocity
          /\ steeringAngle' = GroundedPhysics.steeringAngle]_vars

\* C16, amended: while the vehicle is FALLING no frame changes speed or
\* heading, whatever the intent vector is; they keep the values they had
\* when the fall started until the respawn sets both to 0
C16_PhysicsFrozenWhileFalling ==
    [][FallingFrame =>
          /\ velocity' = velocity
          /\ steeringAngle' = steeringAngle]_vars

\* the end of a falling frame with forward and left held by a moving,
\* turned vehicle
C16_Witness ==
    /\ pc = "cubes"
    /\ last.wasFalling /\ ~last.respawned
    /\ keys.forward /\ keys.left
    /\ velocity > steerDeadzone /\ velocity < maxSpeed
    /\ steeringAngle # 0
    /\ velocity = last.entry.velocity
    /\ steeringAngle = last.entry.steeringAngle

\* a step of an input event handler
HandlerStep == inputEvents' = inputEvents + 1

\* C17 as claimed: an input event handler writes the key flags and the
\* dragging flag only; VehicleState, the world anchor, the props and the
\* camera's orbit and distance are as they were
C17_HandlersWriteIntentOnly ==
    [][HandlerStep =>
          UNCHANGED <<velocity, steeringAngle, isFalling, hasLanded,
                      verticalVelocity, wheelRotations, carGroupRef, worldRef,
                      cubeStates, cameraOrbit, cameraDist>>]_vars

\* C17, amended: an input event handler leaves VehicleState, the world
\* anchor, the props and the camera's distance as they were; the camera's
\* orbit is written by the pointer-move handler, and only while dragging
C17_HandlersWriteIntentAndOrbit ==
    [][HandlerStep =>
          /\ UNCHANGED <<velocity, steeringAngle, isFalling, hasLanded,
                         verticalVelocity, wheelRotations, carGroupRef, worldRef,
                         cubeStates, cameraDist, respawnCalls>>
          /\ cameraOrbit' # cameraOrbit => (isDragging /\ UNCHANGED <<keys, isDragging>>)]_vars

\* a state in which a pointer move while dragging has turned the orbit
C17_Witness ==
    /\ isDragging
    /\ cameraOrbit.x # 0
    /\ last.post5.cameraOrbit.x = 0
    /\ pc = "car"

\* Spec with the render loop kept running: a render tick that has called
\* CarController's frame callback goes on to call the Cubes'
SpecLive ==
    Init /\ [][Next]_vars /\ WF_vars(InfiniteRoadFrame) /\ WF_vars(CubeFrames)

\* some prop is pushed by the moving vehicle in the frame that just ran
DroveIntoProp ==
    /\ last.ran
    /\ last.pre5.velocity # 0
    /\ \E i \in Cubes :
           last.post5.cubeStates[i].velocity # last.pre5.cubeStates[i].velocity

\* the Cube integrator puts a prop back on groundLevel before it tests the
\* depth, so no prop is ever below groundLevel after its integrator has run
\* and no prop is ever marked fallen
PropsStayOnGround ==
    \A i \in Cubes :
        /\ ~cubeStates[i].fallen
        /\ pc = "car" => cubeStates[i].position.y >= groundLevel

HoldStart == MaxGroundFrames - MaxHeldFrames

ForwardOnly == [i \in Intents |-> i = "forward"]

\* runs that start on the ground at rest (after the first render tick, which
\* has found the ground) with forward going down, and stay on the ground
InitHold ==
    \E v \in Variants :
        \E W \in {Held(v, NoKeys, FALSE, 1, Constructed)} :
            /\ variant = v
            /\ keys = ForwardOnly
            /\ actions = HeldActions(keys)
            /\ velocity = W.state.velocity
            /\ steeringAngle = W.state.steeringAngle
            /\ isFalling = W.state.isFalling
            /\ hasLanded = W.state.hasLanded
            /\ verticalVelocity = W.state.verticalVelocity
            /\ cameraOrbit = W.state.cameraOrbit
            /\ isDragging = FALSE
            /\ cameraDist = W.state.cameraDist
            /\ wheelRotations = W.state.wheelRotations
            /\ carModelRef = W.state.carModelRef
            /\ flWheel = W.state.flWheel
            /\ worldRef = W.state.worldRef
            /\ carGroupRef = W.state.carGroupRef
            /\ cubeStates = W.state.cubeStates
            /\ roadZ = W.road
            /\ pc = "car"
            /\ respawnCalls = W.state.respawnCalls
            /\ last = W.trace
            /\ groundFrames = HoldStart
            /\ inputEvents = MaxEvents - 1
            /\ falls = MaxFalls

SpecHold == InitHold /\ [][Next]_vars

\* frames run since the start of a run of SpecHold
FramesHeld == groundFrames - HoldStart

\* forward alone has been held since the start of a run of SpecHold
ForwardHeld == keys = ForwardOnly /\ inputEvents = MaxEvents - 1

\* C19 (Scenario A): from rest on the ground with only forward held, the
\* speed after k frames is acceleration * k up to frame 60, where it is
\* maxSpeed, and it is maxSpeed after every later frame
C19_ScenarioA ==
    ForwardHeld =>
        /\ velocity = (IF acceleration * FramesHeld <= maxSpeed
                       THEN acceleration * FramesHeld ELSE maxSpeed)
        /\ FramesHeld >= 60 => velocity = maxSpeed
        /\ FramesHeld < 60 => velocity < maxSpeed

\* the end of frame 61: top speed was reached in frame 60 and is kept
C19_Witness ==
    /\ ForwardHeld
    /\ pc = "cubes"
    /\ FramesHeld = 61
    /\ last.entry.velocity = maxSpeed
    /\ velocity = maxSpeed

\* -gravity * N * (N + 1) / 2, the discrete sum of N falling frames
FallDepth(N) == -((gravity * N * (N + 1)) \div 2)

\* C20 (Scenario C): in the looping-road controller a fall starts with
\* verticalVelocity 0 and local y 0; after its N-th falling frame
\* verticalVelocity is -gravity * N and local y is -gravity * N * (N + 1) / 2,
\* and the respawn fires in frame N = 89, the first for which that value is
\* below the depth threshold, and in no other frame
C20_ScenarioC ==
    [][(IsCarFrame /\ variant = "loop") =>
          /\ ~isFalling => (verticalVelocity = 0 /\ (hasLanded => carGroupRef.position.y = 0))
          /\ isFalling' =>
                LET N == (-verticalVelocity') \div gravity
                IN /\ verticalVelocity' = verticalVelocity - gravity
                   /\ verticalVelocity' = -gravity * N
                   /\ carGroupRef'.position.y = FallDepth(N)
                   /\ N >= 1 /\ N <= 88
                   /\ FallDepth(N) >= respawnDepth
          /\ last'.respawned <=>
                (isFalling /\ verticalVelocity = -gravity * 88)
          /\ last'.respawned =>
                (FallDepth(89) < respawnDepth /\ FallDepth(88) >= respawnDepth)]_vars

\* the end of the frame in which the respawn fired, the 89th of the fall
C20_Witness ==
    /\ variant = "loop"
    /\ last.respawned
    /\ last.entry.verticalVelocity = -gravity * 88
    /\ last.entry.carGroupRef.position.y = FallDepth(88)
    /\ carGroupRef.position.y = 500

\* the props' velocity gain in the Prop Interaction pass of the latest frame
Gain(i) ==
    Vec(last.post5.cubeStates[i].velocity.x - last.pre5.cubeStates[i].velocity.x,
        last.post5.cubeStates[i].velocity.y - last.pre5.cubeStates[i].velocity.y,
        last.post5.cubeStates[i].velocity.z - last.pre5.cubeStates[i].velocity.z)

\* the Prop Interaction pass of the latest frame ran as in Scenario B: world
\* anchor at (0,0,0), speed 0.5, prop i not fallen at local (0,1,2)
ScenarioB(i) ==
    /\ last.ran
    /\ last.pre5.worldRef.position = Zero3
    /\ last.pre5.velocity = 500
    /\ ~last.pre5.cubeStates[i].fallen
    /\ last.pre5.cubeStates[i].position = Vec(0, 1000, 2000)

\* C21 (Scenario B): with the world anchor at (0,0,0), speed 0.5 and a
\* non-fallen prop at local (0,1,2), one Prop Interaction pass adds to the
\* prop's velocity 0.5 * 1.5 + 0.2 = 0.95 along (0,0,1) and nothing along X
C21_ScenarioB ==
    \A i \in Cubes :
        ScenarioB(i) =>
            /\ Gain(i).z = Mul(500, impulseGain) + baseImpulse
            /\ Gain(i).x = 0

\* C22 (Scenario D): while dragging, a pointer-move with dx = 100 takes
\* exactly 0.5 off orbit.yaw in that one update, whatever the frame time; a
\* pointer-move while not dragging leaves orbit.yaw and orbit.pitch alone
C22_ScenarioD ==
    [][\A mx \in Movements, my \in Movements :
          handleMouseMove(mx, my) =>
              /\ (isDragging /\ mx = 100) =>
                     cameraOrbit'.x = cameraOrbit.x - Unit \div 2
              /\ ~isDragging => cameraOrbit' = cameraOrbit]_vars

\* a drag that has moved the pointer by dx = 100 once
C22_Witness ==
    /\ isDragging
    /\ inputEvents = MaxEvents
    /\ cameraOrbit.x = -(Unit \div 2)

\* C23: orbit.pitch is inside [0.05, 0.5] in every reachable state, for any
\* pointer down / up / move events with any deltas, interleaved with frames
C23_PitchInBand ==
    /\ cameraOrbit.y >= Unit \div 20
    /\ cameraOrbit.y <= Unit \div 2

\* a drag whose pointer-move would have taken the pitch past the upper end of
\* the band
C23_Witness ==
    /\ isDragging
    /\ inputEvents = MaxEvents
    /\ cameraOrbit.y = Unit \div 2

\* a frame that runs while the pointer button is up
AutoCameraFrame == IsCarFrame /\ ~isDragging

\* the frame time the runs use
FrameDelta == CHOOSE d \in Deltas : TRUE

ClaimedSpeed ==
    LET updated == IF keys.forward THEN velocity + 20
                   ELSE IF keys.backward THEN velocity - 12
                   ELSE Mul(velocity, friction)
        braked == IF keys.brake THEN Mul(updated, 880) ELSE updated
    IN Clamp(braked, -(maxSpeed \div 2), maxSpeed)

\* C26: in a grounded frame forward has priority over backward (speed += 0.02,
\* never -= 0.012, when both are asserted), friction applies only when
\* neither is asserted, and the brake factor 0.88 is applied after that update
\* and before the clamp, so forward + brake gives (speed + 0.02) * 0.88
C26_SpeedUpdateOrder ==
    [][(IsCarFrame /\ ~isFalling /\ ~last'.respawned) =>
          velocity' = ClaimedSpeed]_vars

\* the end of a frame with forward, backward and brake all asserted at top
\* speed: (1.2 + 0.02) * 0.88, which the clamp leaves alone
C26_Witness ==
    /\ last.ran
    /\ ~last.wasFalling
    /\ keys.forward /\ keys.backward /\ keys.brake
    /\ last.entry.velocity = maxSpeed
    /\ velocity = Mul(maxSpeed + 20, 880)
    /\ velocity < maxSpeed

\* the world-anchor position after a scroll by speed v along heading a
Scrolled(p, a, v) ==
    IF variant = "loop"
    THEN Vec(p.x + Mul(Sin(a), v), p.y, p.z + Mul(Cos(a), v))
    ELSE Vec(p.x - Mul(Sin(a), v), p.y, p.z - Mul(Cos(a), v))

\* C25: within one frame the stages run once each in the order kinematics,
\* world scroll, ground probe / orientation, prop interaction, camera. The
\* scroll uses the speed and heading of this frame's kinematics; prop
\* interaction and the camera use the speed and the world-anchor offset the
\* frame ends with (the reset ones after a respawn in that frame), not those
\* it started with; and the props and the camera state are written by no
\* stage before their own (a respawn's callback resets the props)
C25_StagesInOrder ==
    last.ran =>
        /\ ~last.respawned =>
               last.scrolled = Scrolled(last.entry.worldRef.position,
                                        steeringAngle, velocity)
        /\ \A i \in Cubes :
               last.post5.cubeStates[i] =
                   CollideCube(last.pre5.cubeStates[i], worldRef.position, velocity)
        /\ cameraDist =
               Lerp(last.entry.cameraDist,
                    5 * Unit + Mul(RoundDiv(velocity * Unit, maxSpeed), 2500),
                    3 * FrameDelta)
        /\ ~last.respawned => last.pre5.cubeStates = last.entry.cubeStates
        /\ last.pre5.cameraOrbit = last.entry.cameraOrbit
        /\ last.pre5.cameraDist = last.entry.cameraDist
        /\ last.post5 = [last.pre5 EXCEPT !.cubeStates = last.post5.cubeStates]
        /\ pc = "cubes" =>
               State = [last.post5 EXCEPT !.cameraOrbit = cameraOrbit,
                                          !.cameraDist = cameraDist]

\* the end of a frame that respawned a moving vehicle and then pushed a prop
\* with the speed the respawn had reset to 0
C25_Witness ==
    /\ last.ran
    /\ last.respawned
    /\ last.entry.velocity # 0
    /\ velocity = 0
    /\ \E i \in Cubes : Gain(i) # Zero3

\* C27: in the bounded-world controller the respawn fires in every frame in
\* which the vehicle's local y drops below -20, so at the end of every frame
\* the local y is not below -20
C27_NeverBelowDepth ==
    (variant = "bounded" /\ last.ran) =>
        carGroupRef.position.y >= respawnDepth

\* the number of falling frames of the fall so far
FallFrames == (-verticalVelocity) \div gravity

\* the local y the fall started at
FallStartY == carGroupRef.position.y - FallDepth(FallFrames)

\* frames a fall can still be FALLING after, as claimed
ClaimedFallBound(y0) == IF y0 <= Unit \div 2 THEN 88 ELSE 90

\* frames a fall can still be FALLING after: y0 - gravity * N * (N + 1) / 2
\* is below the depth threshold at N = 89 only for y0 < 0.025
FallBound(y0) == IF y0 < respawnDepth - FallDepth(89) THEN 88 ELSE 90

\* a frame either ends the fall by the respawn or adds one falling frame, and
\* the fall is not older than the bound for the local y it started at (the
\* claimed bound or the one the integration gives)
FallProgress(claimed) ==
    IsCarFrame =>
        /\ isFalling =>
              \/ ~isFalling' /\ last'.respawned /\ respawnCalls' = respawnCalls + 1
              \/ isFalling' /\ verticalVelocity' = verticalVelocity - gravity
        /\ isFalling' =>
              /\ verticalVelocity' = -gravity * FallFrames'
              /\ FallFrames' >= 1
              /\ FallFrames' <= IF claimed THEN ClaimedFallBound(FallStartY')
                                ELSE FallBound(FallStartY')

PlanarDistance(p) == Length(Vec(p.x, 0, p.z))

\* C29: in the bounded-world controller, whenever the world anchor is more
\* than the world radius 400 from its origin after the scroll step, the ground
\* probe is skipped and the vehicle is FALLING for the rest of the frame or
\* has respawned in it, whether it had landed or not; at the end of every
\* frame, distance > 400 implies FALLING
C29_BeyondRadiusFalls ==
    (variant = "bounded" /\ last.ran) =>
        /\ PlanarDistance(last.scrolled) > worldRadius =>
               /\ ~last.probed
               /\ isFalling \/ last.respawned
        /\ PlanarDistance(worldRef.position) > worldRadius => isFalling

\* the end of a frame that took a vehicle that had not landed yet over the
\* edge, with ground under it
C29_Witness ==
    /\ variant = "bounded"
    /\ last.ran
    /\ ~last.hadLanded
    /\ ~last.wasFalling
    /\ last.hit
    /\ PlanarDistance(last.scrolled) > worldRadius
    /\ last.respawned

\* the segments sit at distinct positions 20 apart, one contiguous stretch
RoadSpaced ==
    \E lo \in {roadZ[i] : i \in 1..SEGMENT_COUNT} :
        {roadZ[i] : i \in 1..SEGMENT_COUNT}
            = {lo + k * SEGMENT_SIZE : k \in 0..(SEGMENT_COUNT - 1)}

\* the point under the vehicle (the world origin) lies on a segment, which
\* reaches SEGMENT_SIZE / 2 to either side of its position
RoadCovers ==
    \E i \in 1..SEGMENT_COUNT :
        Abs(roadZ[i] + worldRef.position.z) <= SEGMENT_SIZE \div 2

\* C30: a road segment is repositioned only in a frame in which its world z
\* is greater than 20, and then by exactly the road length 300; after every
\* frame (the speed clamp keeps each step of the anchor within maxSpeed) the
\* 15 segments sit at distinct positions 20 apart and their stretch contains
\* the point under the vehicle, so the ground probe never misses on the road
C30_RoadTileRecycling ==
    [][variant = "loop" =>
          /\ \A i \in 1..SEGMENT_COUNT :
                roadZ'[i] # roadZ[i] =>
                    /\ pc = "road"
                    /\ roadZ[i] + worldRef.position.z > recycleBehind
                    /\ roadZ'[i] = roadZ[i] - TOTAL_LENGTH
          /\ worldRef'.position.z - worldRef.position.z <= maxSpeed
          /\ pc = "road" => (RoadSpaced' /\ RoadCovers')]_vars

\* the part of the controller's state that is not cosmetic: everything but
\* the wheel-spin accumulators, the steer visual, the body lean and the camera
Physics(S) ==
    [velocity |-> S.velocity, steeringAngle |-> S.steeringAngle,
     isFalling |-> S.isFalling, hasLanded |-> S.hasLanded,
     verticalVelocity |-> S.verticalVelocity, worldRef |-> S.worldRef,
     carGroupRef |-> S.carGroupRef, cubeStates |-> S.cubeStates,
     respawnCalls |-> S.respawnCalls]

\* the state S with other cosmetic and camera values: other wheel-spin
\* accumulators, another steer visual and body lean, another camera orbit and
\* distance, and all of them at once
CosmeticVariants(S) ==
    {[S EXCEPT !.wheelRotations =
          [fl |-> @.fl + 7000, fr |-> @.fr + 7000, rl |-> @.rl + 7000,
           rr |-> @.rr + 7000]],
     [S EXCEPT !.flWheel.rotation.y = IF @ = Unit THEN -Unit ELSE Unit,
               !.carModelRef.rotation = [x |-> 15, z |-> -10]],
     [S EXCEPT !.cameraOrbit = [x |-> 500, y |-> 50],
               !.cameraDist = 7500],
     [S EXCEPT !.wheelRotations = [fl |-> 1, fr |-> 2, rl |-> 3, rr |-> 4],
               !.flWheel.rotation.y = 372,
               !.carModelRef.rotation = [x |-> -5, z |-> 3],
               !.cameraOrbit = [x |-> -250, y |-> 500],
               !.cameraDist = 3750]}

\* the other runs a frame is compared with: another cosmetic and camera
\* state, or the other value of the dragging flag
CosmeticRuns ==
    {[state |-> S, drag |-> isDragging] : S \in CosmeticVariants(State)}
    \cup {[state |-> State, drag |-> ~isDragging]}

\* the draws of Math.random() the step's frame made (the respawn puts the
\* props where they say)
DrawsOfStep ==
    IF last'.respawned THEN [i \in 1..NumCubes |-> cubeStates'[i].position]
    ELSE NoRandom

\* the step's frame run again from the state S, with the same key flags,
\* ground-probe result and random draws
Replay(S, drag, delta) ==
    IF variant = "loop"
    THEN useFrame(S, keys, drag, last'.hit, delta, DrawsOfStep).state
    ELSE useFrameBounded(S, keys, drag, last'.hit, delta, DrawsOfStep).state

\* C31: cosmetic and camera state never feed back into physics. A frame run
\* from a state that differs in the wheel-spin accumulators, the steer visual,
\* the body lean, the camera orbit, the camera distance or the dragging flag,
\* with the same key flags and ground-probe result, leaves the same speed,
\* heading, falling state, vertical velocity, world anchor, vehicle transform
\* and props (so two such runs agree on them after every frame)
C31_CosmeticNeverFeedsBack ==
    [][IsCarFrame =>
          \A run \in CosmeticRuns :
              \E R \in {Replay(run.state, run.drag, HeldDelta)} :
                  Physics(R) = Physics(State')]_vars

\* a frame has run with the vehicle moving, the wheels spun and turned and
\* the camera pulled back
C31_Witness ==
    /\ last.ran
    /\ pc # "car"
    /\ velocity # 0
    /\ steeringAngle # 0
    /\ wheelRotations.fl # 0
    /\ flWheel.rotation.y # 0
    /\ cameraDist # 5 * Unit

\* other frame times than the 60 frames per second of Deltas: 120 and 30
FrameTimes == {8, 33}

\* C35: in the looping-road controller the physical state is independent of
\* the frame time. A frame run with another delta, from a state that differs
\* in what earlier deltas could have left different (the cosmetic and camera
\* state), with the same key flags and ground-probe result, leaves the same
\* speed, heading, world anchor, isFalling, hasLanded, verticalVelocity,
\* vehicle transform and props
C35_PhysicsIndependentOfDelta ==
    [][IsCarFrame /\ variant = "loop" =>
          \A S \in {State} \cup CosmeticVariants(State), delta \in FrameTimes :
              \E R \in {Replay(S, isDragging, delta)} :
                  Physics(R) = Physics(State')]_vars

\* a frame of the looping-road controller has run with the vehicle moving
\* and a prop inside the contact radius, hit by the impulse
C35_Witness ==
    /\ variant = "loop"
    /\ last.ran
    /\ pc # "car"
    /\ velocity # 0
    /\ \E i \in Cubes : last.post5.cubeStates[i].velocity # last.pre5.cubeStates[i].velocity

\* C32: in the looping-road controller FALLING implies hasLanded in every
\* reachable state: hasLanded is cleared only by a frame that respawns, which
\* also clears FALLING, and FALLING is entered only when hasLanded is true
C32_FallingImpliesLanded ==
    /\ [](variant = "loop" /\ isFalling => hasLanded)
    /\ [][variant = "loop" =>
              /\ hasLanded /\ ~hasLanded' => last'.respawned /\ ~isFalling'
              /\ ~isFalling /\ isFalling' => hasLanded /\ hasLanded']_vars

\* the looping-road vehicle is FALLING, some frames into the fall
C32_Witness ==
    /\ variant = "loop"
    /\ isFalling
    /\ verticalVelocity < -gravity

\* C33: verticalVelocity is 0 at the end of every frame in which the vehicle
\* is not FALLING, and strictly negative while it is FALLING, where it
\* strictly decreases from frame to frame
C33_VerticalVelocitySign ==
    /\ [](IF isFalling THEN verticalVelocity < 0 ELSE verticalVelocity = 0)
    /\ [][IsCarFrame /\ isFalling /\ isFalling' =>
              verticalVelocity' < verticalVelocity]_vars

\* a fall that has lasted several frames, and a frame that ended a fall
C33_Witness ==
    /\ last.respawned
    /\ last.entry.verticalVelocity < -3 * gravity
    /\ ~isFalling
    /\ pc # "car"

\* velocities a prop can be given: at rest, rising, sinking slowly, and
\* sinking fast enough to pass the depth threshold in one step
PropVelocities ==
    {Vec(x, y, 0) : x \in {0, 933}, y \in {-30000, -1000, -5, 0, 741}}

\* a step of the props' own integrators
IsCubeFrame == pc = "cubes" /\ pc' = "car"

\* what the claim says of one integrator step from the prop c to the prop d
GroundedStep(c, d) ==
    /\ d.position.y >= groundLevel
    /\ ~d.fallen
    /\ c.position.y + Mul(c.velocity.y - lunarGravity, airFriction) < groundLevel
           => d.position.y = groundLevel /\ d.velocity.y = 0

FallContinues == IsCarFrame /\ isFalling /\ isFalling'

\* the translation of the world anchor in the latest frame's scroll stage
LastScroll ==
    [x |-> last.scrolled.x - last.entry.worldRef.position.x,
     z |-> last.scrolled.z - last.entry.worldRef.position.z]

\* C36: during a fall the world anchor keeps scrolling: in every FALLING
\* frame before the respawn, speed and heading are what they were when the
\* frame started (so what they were when the fall began) and the world anchor
\* is translated by the same step as in the frame before, which in the
\* looping-road controller is (sin(heading) * speed, cos(heading) * speed)
C36_FallKeepsScrolling ==
    [][FallContinues =>
          /\ velocity' = velocity
          /\ steeringAngle' = steeringAngle
          /\ worldRef'.position.x - worldRef.position.x = LastScroll.x
          /\ worldRef'.position.z - worldRef.position.z = LastScroll.z
          /\ worldRef'.position.y = worldRef.position.y
          /\ variant = "loop" =>
                 /\ worldRef'.position.x - worldRef.position.x
                        = Mul(Sin(steeringAngle), velocity)
                 /\ worldRef'.position.z - worldRef.position.z
                        = Mul(Cos(steeringAngle), velocity)]_vars

\* a turned, moving vehicle of the looping-road controller two frames into a
\* fall, the world anchor moved along both axes by the latest frame
C36_Witness ==
    /\ variant = "loop"
    /\ isFalling
    /\ last.wasFalling
    /\ pc # "car"
    /\ velocity # 0
    /\ worldRef.position.x # last.entry.worldRef.position.x
    /\ worldRef.position.z # last.entry.worldRef.position.z

\* a frame that starts on the ground with forward and brake both asserted
BrakedForwardFrame == IsCarFrame /\ ~isFalling /\ keys.forward /\ keys.brake

\* the speed the claim names as the limit under forward and brake
BrakedLimit == 150

\* the least speed above the fixed point acceleration * brakeFactor /
\* (1 - brakeFactor) = 0.14667 of v -> (v + acceleration) * brakeFactor
AboveFixedPoint ==
    (brakeFactor * acceleration) \div (Unit - brakeFactor) + 1

\* the decrease (1 - brakeFactor) * v - brakeFactor * acceleration of an
\* unrounded forward-and-brake update is at least one unit of the arithmetic
BrakedLossShows(v) ==
    (Unit - brakeFactor) * v - brakeFactor * acceleration >= Unit

ImpulseScale(v) == Mul(Abs(v), impulseGain) + baseImpulse

\* what the claim says of one pass of the interaction over a prop that is
\* not fallen: c before, d after, with the world anchor at w and the speed v
ContactPass(c, d, w, v) ==
    IF Length(Vec(c.position.x + w.x, 0, c.position.z + w.z)) < contactRadius
    THEN /\ ImpulseScale(v) >= baseImpulse
         /\ d.velocity.y = c.velocity.y + Mul(pushUp, ImpulseScale(v))
         /\ d.velocity.y >= c.velocity.y + Mul(pushUp, baseImpulse)
    ELSE d = c

\* planar distances around the contact radius
ContactDistances == {contactRadius - 1, contactRadius, contactRadius + 1}

\* a prop at rest at the planar distance dist from the vehicle
PropAt(dist) ==
    [position |-> Vec(dist - worldRef.position.x, groundLevel,
                      -worldRef.position.z),
     velocity |-> Zero3, fallen |-> FALSE]

\* C39: the contact impulse is applied in every frame in which a prop that
\* is not fallen is at a planar distance strictly below 2.5 from the vehicle,
\* whether it was in contact before or not, and not at 2.5 or beyond; its
\* scale is at least the base impulse 0.2, also at speed 0, so a stationary
\* vehicle keeps pushing a prop inside the radius
C39_ImpulseEveryFrameInContact ==
    /\ last.ran =>
           \A i \in Cubes :
               ~last.pre5.cubeStates[i].fallen =>
                   ContactPass(last.pre5.cubeStates[i], last.post5.cubeStates[i],
                               last.pre5.worldRef.position, last.pre5.velocity)
    /\ \A dist \in ContactDistances :
           \E c \in {PropAt(dist)} :
               /\ ContactPass(c, CollideCube(c, worldRef.position, velocity),
                              worldRef.position, velocity)
               /\ CollideCube(c, worldRef.position, velocity) # c
                      <=> dist < contactRadius

\* a stationary vehicle has pushed a prop that it had pushed before
C39_Witness ==
    /\ last.ran
    /\ last.entry.velocity = 0
    /\ last.pre5.velocity = 0
    /\ \E i \in Cubes :
           /\ last.entry.cubeStates[i].velocity.y > 0
           /\ last.post5.cubeStates[i].velocity.y
                  >= last.pre5.cubeStates[i].velocity.y + Mul(pushUp, baseImpulse)

\* the flags after a key event: the flag the code is mapped to has the
\* direction of the event, every other flag is as it was
FlagsAfter(code, down) ==
    /\ \A i \in Intents :
           keys'[i] = IF i = IntentOf(code) THEN down ELSE keys[i]
    /\ \A a \in Actions :
           actions'[a] = IF a = IntentOf(code) THEN down ELSE actions[a]

\* C38: each intent flag has the direction of the most recent key event among
\* the keys mapped to it, independently of the other flags: a keydown of any
\* key mapped to it sets it and a keyup of any key mapped to it clears it,
\* whatever the flags were (the handlers keep no record of the keys that are
\* down, so releasing one of two held keys clears the flag), and no other step
\* writes a flag; the controller's flags and the hook's actions agree
C38_FlagFollowsLatestKeyEvent ==
    /\ [](\A i \in Intents : keys[i] = actions[i])
    /\ [][/\ \A code \in Codes :
                 /\ keydown(code) => FlagsAfter(code, TRUE)
                 /\ keyup(code) => FlagsAfter(code, FALSE)
          /\ (keys' # keys \/ actions' # actions) =>
                 \E key \in Codes : keydown(key) \/ keyup(key)]_vars

\* forward was held (the vehicle is still rolling forward) and a keyup of a
\* key mapped to it, the one event of the run, has cleared the flag
C38_Witness ==
    /\ inputEvents = MaxEvents
    /\ keys = NoKeys
    /\ actions = NoActions
    /\ velocity > 0
    /\ last.ran
    /\ pc = "car"

====
